---- MODULE Spec2Model ----
(***************************************************************************)
(* Model of the Parallel Web Crawler: the master (rank 0) of               *)
(* src/src/mpi_coordinator.py, its workers (ranks 1..size-1) and the       *)
(* crawl pipeline of src/src/crawler_core.py, communicating over MPI       *)
(* point-to-point messages (tag 0: work items and None, tag 1: results).   *)
(***************************************************************************)
EXTENDS Integers, Sequences, FiniteSets, Bags, TLC

(***************************************************************************)
(* Bounds of the model.                                                    *)
(***************************************************************************)
\* the communicator has 2..MaxSize processes (main.py refuses size < 2)
MaxSize == 3
\* config.max_depth ranges over 0..MaxDepth
MaxDepth == 1
\* config.max_urls_per_domain ranges over 1..MaxQuota
MaxQuota == 2
\* the seed file holds 0..MaxSeeds valid lines
MaxSeeds == 2
\* the clock of a worker is followed up to MaxTime seconds
MaxTime == 2

(***************************************************************************)
(* URLs.  A URL is a record of its scheme, its netloc, its path and its    *)
(* query, as urlparse splits it.  The path is the sequence of its          *)
(* characters, so that the suffix tests of is_url_allowed are computed as  *)
(* the code computes them; the netloc is the host name followed by the     *)
(* characters of the port, if one was written.                             *)
(***************************************************************************)
Url(h, p) == [scheme |-> "http", netloc |-> << h >>, path |-> p, query |-> << >>]

\* The pages of the web that is crawled: a site of four pages, and a
\* document of another site that the configuration blocks.
URLS ==
    { Url("c.test", <<"/">>),
      Url("c.test", <<"/", "a">>),
      Url("c.test", <<"/", "b">>),
      Url("c.test", <<"/", "c">>),
      Url("d.test", <<"/", "f", ".", "p", "d", "f">>) }

\* The lines a seed file is made of: the site's root and the blocked document.
SEEDS ==
    { Url("c.test", <<"/">>),
      Url("d.test", <<"/", "f", ".", "p", "d", "f">>) }

Domains == { u.netloc : u \in URLS }

\* utils.get_domain_from_url: urlparse(url).netloc.lower().  Every URL that
\* reaches the coordinator went through normalize_url, which lowercases the
\* netloc, so the netlocs of URLS are lowercase already.
get_domain_from_url(u) == u.netloc

\* CrawlerConfig.__post_init__ defaults
allowed_protocols == { "http", "https" }

allowed_extensions ==
    { <<".", "h", "t", "m", "l">>,
      <<".", "h", "t", "m">>,
      <<".", "p", "h", "p">>,
      <<".", "a", "s", "p">>,
      <<".", "a", "s", "p", "x">>,
      <<".", "j", "s", "p">>,
      <<".", "p", "y">>,
      <<".", "r", "b">>,
      <<".", "p", "l">>,
      <<>> }

blocked_extensions ==
    { <<".", "p", "d", "f">>,
      <<".", "d", "o", "c">>,
      <<".", "d", "o", "c", "x">>,
      <<".", "x", "l", "s">>,
      <<".", "x", "l", "s", "x">>,
      <<".", "p", "p", "t">>,
      <<".", "p", "p", "t", "x">>,
      <<".", "z", "i", "p">>,
      <<".", "r", "a", "r">>,
      <<".", "7", "z">>,
      <<".", "t", "a", "r">>,
      <<".", "g", "z">>,
      <<".", "j", "p", "g">>,
      <<".", "j", "p", "e", "g">>,
      <<".", "p", "n", "g">>,
      <<".", "g", "i", "f">>,
      <<".", "b", "m", "p">>,
      <<".", "s", "v", "g">>,
      <<".", "i", "c", "o">>,
      <<".", "m", "p", "3">>,
      <<".", "m", "p", "4">>,
      <<".", "w", "a", "v">>,
      <<".", "a", "v", "i">>,
      <<".", "m", "o", "v">>,
      <<".", "w", "m", "v">>,
      <<".", "e", "x", "e">>,
      <<".", "m", "s", "i">>,
      <<".", "d", "e", "b">>,
      <<".", "r", "p", "m">>,
      <<".", "d", "m", "g">> }

\* str.endswith
EndsWith(s, suffix) ==
    /\ Len(suffix) <= Len(s)
    /\ SubSeq(s, Len(s) - Len(suffix) + 1, Len(s)) = suffix

\* os.path.basename: what follows the last "/"
Basename(p) ==
    LET slashes == { i \in 1..Len(p) : p[i] = "/" }
        last == IF slashes = {} THEN 0
                ELSE CHOOSE i \in slashes : \A j \in slashes : j <= i
    IN  SubSeq(p, last + 1, Len(p))

\* CrawlerConfig.is_url_allowed
is_url_allowed(u) ==
    IF u.scheme \notin allowed_protocols THEN FALSE
    ELSE IF \E ext \in blocked_extensions : EndsWith(u.path, ext) THEN FALSE
    ELSE IF /\ allowed_extensions # {}
            /\ ~ \E ext \in allowed_extensions : EndsWith(u.path, ext)
            /\ \E i \in 1..Len(Basename(u.path)) : Basename(u.path)[i] = "."
         THEN FALSE
    ELSE TRUE

(***************************************************************************)
(* Messages.                                                               *)
(***************************************************************************)
\* WorkItem(url, depth)
WorkItem(u, d) == [kind |-> "work", url |-> u, depth |-> d]

\* Python's None; on tag 0 it is the termination signal:
\* comm.send(None, dest=worker_rank, tag=0)
None == [kind |-> "none"]

(***************************************************************************)
(* The seed file.  A line is what urlparse makes of it: its scheme, its    *)
(* netloc, its path and its query.                                         *)
(***************************************************************************)
Line(s, h, p) ==
    [scheme |-> s, netloc |-> IF h = "" THEN << >> ELSE << h >>, path |-> p,
     query |-> << >>]

\* a line of white space
BlankLine == Line("", "", << >>)

\* The lines of the seed files beyond the canonical SEEDS: a blank line, a
\* URL of another scheme, a URL without a host, the site's root written
\* with an upper-case host and no path, and the root with slashes to strip.
LINES ==
    { BlankLine,
      Line("ftp", "c.test", <<"/">>),
      Line("http", "", <<"/", "a">>),
      Line("http", "C.TEST", << >>),
      Line("http", "d.test", <<"/", "f", ".", "p", "d", "f">>) }

\* a seed file with these lines, and the seed file that does not exist
File(lines) == [exists |-> TRUE, lines |-> lines]
NoFile == [exists |-> FALSE, lines |-> << >>]

\* str.lower on the netlocs of the model
lower(h) == [i \in 1..Len(h) |-> IF h[i] = "C.TEST" THEN "c.test" ELSE h[i]]

\* sub in s, of strings
Contains(s, sub) ==
    \E i \in 1..(Len(s) - Len(sub) + 1) : SubSeq(s, i, i + Len(sub) - 1) = sub

\* s.replace(old, ''): every occurrence of old is taken out, from the left
RECURSIVE replace(_, _)
replace(s, old) ==
    IF Len(s) < Len(old) THEN s
    ELSE IF SubSeq(s, 1, Len(old)) = old
         THEN replace(SubSeq(s, Len(old) + 1, Len(s)), old)
         ELSE << s[1] >> \o replace(Tail(s), old)

\* normalize_url lines 70-74
remove_default_port(scheme, netloc) ==
    IF Contains(netloc, <<":", "8", "0">>) /\ scheme = "http"
    THEN replace(netloc, <<":", "8", "0">>)
    ELSE IF Contains(netloc, <<":", "4", "4", "3">>) /\ scheme = "https"
         THEN replace(netloc, <<":", "4", "4", "3">>)
         ELSE netloc

\* str.rstrip('/')
RECURSIVE rstrip(_)
rstrip(p) ==
    IF p # << >> /\ p[Len(p)] = "/" THEN rstrip(SubSeq(p, 1, Len(p) - 1)) ELSE p

\* utils.normalize_url without base_url, lines 54-86, on what urlparse made
\* of the URL: None for another scheme or no netloc, else the lower-case
\* netloc without ":80" (":443" for https), the path without its trailing
\* slashes, "/" standing for no path, and the query as it was
normalize_url(url) ==
    IF url.scheme \notin { "http", "https" } THEN None
    ELSE IF url.netloc = << >> THEN None
    ELSE [scheme |-> url.scheme,
          netloc |-> remove_default_port(url.scheme, lower(url.netloc)),
          path |-> IF url.path # << >> /\ url.path[Len(url.path)] = "/" /\ Len(url.path) > 1
                   THEN rstrip(url.path)
                   ELSE IF url.path = << >> THEN <<"/">> ELSE url.path,
          query |-> url.query]

\* a line that normalize_url refused is kept as it was written
RECURSIVE validate_seed_urls_all(_, _)
validate_seed_urls_all(urls, i) ==
    IF i > Len(urls) THEN << >>
    ELSE LET normalized == normalize_url(urls[i])
         IN  << IF normalized # None THEN normalized ELSE urls[i] >>
             \o validate_seed_urls_all(urls, i + 1)

\* utils.validate_seed_urls from the i-th URL on
RECURSIVE validate_seed_urls(_, _)
validate_seed_urls(urls, i) ==
    IF i > Len(urls) THEN << >>
    ELSE LET normalized == normalize_url(urls[i])
         IN  IF normalized # None
             THEN << normalized >> \o validate_seed_urls(urls, i + 1)
             ELSE validate_seed_urls(urls, i + 1)

\* _load_seed_urls: the non-blank lines of the file validated, and no seed
\* if the file cannot be opened
load_seed_urls(file) ==
    IF ~ file.exists THEN << >>
    ELSE validate_seed_urls(SelectSeq(file.lines, LAMBDA line : line # BlankLine), 1)

STATUSES == { "success", "blocked", "robots_blocked", "request_error", "parse_error" }

VARIABLES
    \* the run's inputs
    size,                 \* comm.Get_size()
    max_depth,            \* config.max_depth
    max_urls_per_domain,  \* config.max_urls_per_domain
    urls_file,            \* the file config.urls_file names
    seed_urls,            \* what _load_seed_urls returns
    \* the master
    pc,                   \* position of run_master
    visited_urls,
    work_queue,
    enqueued,             \* history: the work items appended to work_queue, in order
    active_workers,
    domain_counts,
    total_processed,
    urls_sent,
    results_received,
    \* the transport
    tag0,                 \* tag0[w]: messages sent to worker w, not yet received
    tag1,                 \* tag1[w]: results sent by worker w, not yet received
    \* the workers
    wpc,                  \* position of run_worker
    work_item,            \* the work item a worker is processing
    urls_processed,
    \* history
    sent_log,             \* every work item sent, with its destination, in order
    recv_count,           \* work items received by each worker
    skip_log,             \* the reasons for which _filter_and_add_links skipped a link
    effects,              \* what the last iteration of the main loop did, in order
    \* the store
    crawled_urls,         \* table crawled_urls: the bag of its rows
    discovered_links,     \* table discovered_links: a bag of rows
    store_faulty,         \* a write to the store may fail
    \* the processes: main() of main.py
    main_pc,              \* position of main in each rank
    exit_code,            \* what main returns, or sys.exit raises, in each rank
    \* one crawler core: CrawlerCore of crawler_core.py
    respect_robots_txt,   \* config.respect_robots_txt
    robots_cache,         \* self.robots_cache
    last_request_time,    \* self.last_request_time
    get_starts,           \* history: per domain, when its last two GETs started
    robots_fetches,       \* history: per origin, how often rp.read() was called
    now,                  \* time.time()
    cpc,                  \* position of crawl_url
    job,                  \* the url and depth crawl_url was called with
    crawl_result,         \* the result dictionary of the call
    response,             \* what session.get returned
    events,               \* the sleeps, time stamps, requests and exceptions of the call, in order
    \* the store driven call by call
    written,              \* history: per url, the rows insert_crawl_result wrote, in order
    store_calls,          \* the number of calls made
    \* the URL functions called on one URL
    text,                 \* the URL, as it is written
    normalized,           \* what normalize_url returned for it, once called
    renormalized,         \* what normalize_url returned for that result
    allowed,              \* what is_url_allowed returned for the URL
    \* the title of one page
    page,                 \* the response: its content type and its title tag
    title                 \* result['title'], once set

vars == << size, max_depth, max_urls_per_domain, urls_file, seed_urls, pc, visited_urls,
           work_queue, enqueued, active_workers, domain_counts, total_processed,
           urls_sent, results_received, tag0, tag1, wpc, work_item,
           urls_processed, sent_log, recv_count, skip_log, effects,
           crawled_urls, discovered_links, store_faulty, main_pc, exit_code,
           respect_robots_txt, robots_cache, last_request_time, get_starts,
           robots_fetches, now, cpc, job,
           crawl_result, response, events, written, store_calls,
           text, normalized, renormalized, allowed, page, title >>

config_vars == << size, max_depth, max_urls_per_domain, urls_file, seed_urls >>
master_vars == << pc, visited_urls, work_queue, enqueued, active_workers, domain_counts,
                  total_processed, urls_sent, results_received >>

store_vars == << crawled_urls, discovered_links, effects >>

\* what only the calls made to a component on its own change
url_vars == << text, normalized, renormalized, allowed >>
title_vars == << page, title >>
unit_vars == << written, store_calls, url_vars, title_vars >>

\* what no step of run_master or run_worker changes
core_vars == << respect_robots_txt, robots_cache, last_request_time, get_starts,
               robots_fetches, now, cpc, job, crawl_result, response, events,
               unit_vars >>

frame_vars == << store_faulty, main_pc, exit_code, core_vars >>

Workers == 1..(size - 1)

\* sequences over S of length 0..n
SeqsUpTo(S, n) == UNION { [1..k -> S] : k \in 0..n }

Min(a, b) == IF a < b THEN a ELSE b


\* the orders in which a Python set can be iterated
Orders(S) ==
    { o \in [1..Cardinality(S) -> S] : \A i, j \in 1..Cardinality(S) : o[i] = o[j] => i = j }

(***************************************************************************)
(* The worker pipeline.                                                    *)
(***************************************************************************)
\* the result dictionary of crawl_url (the fields the coordinator reads)
Result(u, d, st, ls) ==
    [url |-> u, depth |-> d, domain |-> get_domain_from_url(u), status |-> st, links |-> ls]

\* crawl_url lines 124-140: the links of a page are extracted only below
\* max_depth, and only those that is_url_allowed accepts are kept; what a
\* page links to is the web's choice
valid_links(depth) ==
    IF depth < max_depth
    THEN SUBSET { l \in URLS : is_url_allowed(l) }
    ELSE { {} }

\* CrawlerCore.crawl_url: the results a crawl of url at depth can return.
\* robots.txt, the HTTP request and the parser are the environment's choice.
crawl_url(url, depth) ==
    IF ~ is_url_allowed(url)
    THEN { Result(url, depth, "blocked", {}) }
    ELSE { Result(url, depth, st, {}) : st \in { "robots_blocked", "request_error", "parse_error" } }
         \cup { Result(url, depth, "success", ls) : ls \in valid_links(depth) }

(***************************************************************************)
(* The store: DatabaseManager.                                             *)
(***************************************************************************)
\* the columns of crawled_urls that the result of a crawl fills; a table is
\* the bag of its rows, the row id left out
Row(result) == [url |-> result.url, status |-> result.status, depth |-> result.depth,
                domain |-> result.domain]

\* the rows of table whose column url is url
RowsOf(table, url) == { row \in BagToSet(table) : row.url = url }

\* the table without UNIQUE on url: the row is added to those there are
insert_crawl_result_append(table, result, ok) ==
    IF ok THEN table (+) SetToBag({ Row(result) }) ELSE table

\* the row written only for a successful crawl
insert_crawl_result_success(table, result, ok) ==
    IF ok /\ result.status = "success"
    THEN LET kept == BagToSet(table) \ RowsOf(table, result.url)
         IN  [row \in kept |-> table[row]] (+) SetToBag({ Row(result) })
    ELSE table

\* insert_crawl_result: INSERT OR REPLACE with url UNIQUE deletes the rows
\* that have the url of the new row, then inserts it; a write that raises
\* is caught, and the table is left as it was (ok = FALSE)
insert_crawl_result(table, result, ok) ==
    IF ok
    THEN LET kept == BagToSet(table) \ RowsOf(table, result.url)
         IN  [row \in kept |-> table[row]] (+) SetToBag({ Row(result) })
    ELSE table

\* insert_discovered_links: one INSERT per target in one transaction; the
\* table has no uniqueness constraint other than its row id
insert_discovered_links(table, source_url, target_urls, depth, ok) ==
    IF ok
    THEN table (+) SetToBag({ [source_url |-> source_url, target_url |-> t, depth |-> depth] :
                              t \in target_urls })
    ELSE table

\* the outcomes a write to the store can have
WriteOutcomes == IF store_faulty THEN BOOLEAN ELSE { TRUE }

(***************************************************************************)
(* The master: frontier.                                                   *)
(***************************************************************************)
\* the seeds queued without being added to visited_urls (line 80 left out)
RECURSIVE SeedQueue_unmarked(_, _, _)
SeedQueue_unmarked(seeds, i, f) ==
    IF i > Len(seeds) THEN f
    ELSE IF seeds[i] \notin f.visited
         THEN SeedQueue_unmarked(seeds, i + 1,
                                 [queue |-> Append(f.queue, WorkItem(seeds[i], 0)),
                                  visited |-> f.visited])
         ELSE SeedQueue_unmarked(seeds, i + 1, f)

\* run_master lines 77-80 from the i-th seed on; f is [queue, visited]
RECURSIVE SeedQueue(_, _, _)
SeedQueue(seeds, i, f) ==
    IF i > Len(seeds) THEN f
    ELSE IF seeds[i] \notin f.visited
         THEN SeedQueue(seeds, i + 1,
                        [queue |-> Append(f.queue, WorkItem(seeds[i], 0)),
                         visited |-> f.visited \cup { seeds[i] }])
         ELSE SeedQueue(seeds, i + 1, f)

\* the check of line 247 left out
AlreadyVisited_never(link, visited) == FALSE

\* _filter_and_add_links line 247
AlreadyVisited(link, visited) == link \in visited

\* _filter_and_add_links lines 251-252
OverDomainLimit(link) ==
    LET domain == get_domain_from_url(link)
    IN  domain # << >> /\ domain_counts[domain] >= max_urls_per_domain

\* a link skipped for reason why
Skip(f, why) == [f EXCEPT !.skipped = @ \cup { why }]

\* the link added to visited_urls before the checks of lines 251-256
RECURSIVE filter_and_add_links_marked(_, _, _, _)
filter_and_add_links_marked(links, i, depth, f) ==
    IF i > Len(links) THEN f
    ELSE IF AlreadyVisited(links[i], f.visited)
         THEN filter_and_add_links_marked(links, i + 1, depth, Skip(f, "visited"))
    ELSE IF OverDomainLimit(links[i])
         THEN filter_and_add_links_marked(links, i + 1, depth,
                  Skip([f EXCEPT !.visited = @ \cup { links[i] }], "domain_limit"))
    ELSE IF ~ is_url_allowed(links[i])
         THEN filter_and_add_links_marked(links, i + 1, depth,
                  Skip([f EXCEPT !.visited = @ \cup { links[i] }], "not_allowed"))
    ELSE filter_and_add_links_marked(links, i + 1, depth,
                              [f EXCEPT !.queue = Append(@, WorkItem(links[i], depth)),
                                        !.visited = @ \cup { links[i] },
                                        !.new_links = @ \cup { links[i] }])

\* _filter_and_add_links from the i-th link of the iteration on;
\* f is [queue, visited, new_links, skipped]
RECURSIVE filter_and_add_links(_, _, _, _)
filter_and_add_links(links, i, depth, f) ==
    IF i > Len(links) THEN f
    ELSE IF AlreadyVisited(links[i], f.visited)
         THEN filter_and_add_links(links, i + 1, depth, Skip(f, "visited"))
    ELSE IF OverDomainLimit(links[i])
         THEN filter_and_add_links(links, i + 1, depth, Skip(f, "domain_limit"))
    ELSE IF ~ is_url_allowed(links[i])
         THEN filter_and_add_links(links, i + 1, depth, Skip(f, "not_allowed"))
    ELSE filter_and_add_links(links, i + 1, depth,
                              [f EXCEPT !.queue = Append(@, WorkItem(links[i], depth)),
                                        !.visited = @ \cup { links[i] },
                                        !.new_links = @ \cup { links[i] }])

\* the links of a result placed two levels below it
LinkDepth_skip(depth) == depth + 2

\* _process_result line 219: the depth given to the links of a result
LinkDepth(depth) == depth + 1

\* _process_result lines 213-223: the frontier after the links of result were
\* handled, the links being iterated in the order links
ProcessLinks(result, links) ==
    LET f == [queue |-> work_queue, visited |-> visited_urls, new_links |-> {},
              skipped |-> skip_log]
    IN  IF result.status = "success" /\ result.links # {} /\ result.depth < max_depth
        THEN filter_and_add_links(links, 1, LinkDepth(result.depth), f)
        ELSE f

\* the links of a result are left aside when its row could not be written
LinksAfterWrite_halt(result, links, ok) ==
    IF ok THEN ProcessLinks(result, links)
    ELSE [queue |-> work_queue, visited |-> visited_urls, new_links |-> {},
          skipped |-> skip_log]

\* _process_result lines 206-219: what insert_crawl_result returned is not
\* read, the links are handled whether the row was written (ok) or not
LinksAfterWrite(result, links, ok) == ProcessLinks(result, links)

\* an edge for every link of the result
EdgeTargets_all(result, f) == result.links

\* _process_result lines 219-222: the targets of the edges written for a
\* result are the links _filter_and_add_links returned
EdgeTargets(result, f) == f.new_links

\* _process_result line 206 onwards in the order of its statements: what it
\* does with the result of worker_rank, f being what ProcessLinks returned
ProcessOps(result, worker_rank, f) ==
    << [op |-> "insert_crawl_result", worker |-> worker_rank] >>
    \o (IF result.status = "success" /\ result.links # {} /\ result.depth < max_depth
        THEN << [op |-> "filter_and_add_links", worker |-> worker_rank] >>
        ELSE << >>)
    \o (IF f.new_links # {}
        THEN << [op |-> "insert_discovered_links", worker |-> worker_rank] >>
        ELSE << >>)

\* _process_result lines 227-230
UpdateDomainCounts(result) ==
    IF result.domain # << >>
    THEN [domain_counts EXCEPT ![result.domain] = @ + 1]
    ELSE domain_counts

\* the last rank left out: range(1, size - 1)
terminate_all_workers_short(chan) ==
    [w \in DOMAIN chan |-> IF w \in 1..(size - 2) THEN Append(chan[w], None) ELSE chan[w]]

\* _terminate_all_workers: None to every rank of range(1, size)
terminate_all_workers(chan) ==
    [w \in DOMAIN chan |-> IF w \in 1..(size - 1) THEN Append(chan[w], None) ELSE chan[w]]


(***************************************************************************)
(* The initial state: the processes are constructed, nothing was sent.     *)
(***************************************************************************)
\* the program's state after construction, but for the URL at hand
InitRun ==
    /\ seed_urls = load_seed_urls(urls_file)
    /\ pc = "bootstrap"
    /\ visited_urls = {}
    /\ work_queue = << >>
    /\ enqueued = << >>
    /\ active_workers = {}
    /\ domain_counts = [d \in Domains |-> 0]
    /\ total_processed = 0
    /\ urls_sent = 0
    /\ results_received = 0
    /\ tag0 = [w \in 1..(size - 1) |-> << >>]
    /\ tag1 = [w \in 1..(size - 1) |-> << >>]
    /\ wpc = [w \in 1..(size - 1) |-> "recv"]
    /\ work_item = [w \in 1..(size - 1) |-> None]
    /\ urls_processed = [w \in 1..(size - 1) |-> 0]
    /\ sent_log = << >>
    /\ recv_count = [w \in 1..(size - 1) |-> 0]
    /\ skip_log = {}
    /\ effects = << >>
    /\ crawled_urls = EmptyBag
    /\ discovered_links = EmptyBag
    /\ store_faulty = FALSE
    /\ main_pc = [rank \in 0..(size - 1) |-> "run"]
    /\ exit_code = [rank \in {} |-> 0]
    /\ robots_cache = [origin \in {} |-> {}]
    /\ last_request_time = [domain \in {} |-> 0]
    /\ get_starts = [domain \in {} |-> << >>]
    /\ robots_fetches = [origin \in {} |-> 0]
    /\ now = 0
    /\ cpc = "idle"
    /\ job = None
    /\ crawl_result = None
    /\ response = None
    /\ events = << >>
    /\ written = [url \in {} |-> << >>]
    /\ store_calls = 0
    /\ normalized = << >>
    /\ renormalized = << >>
    /\ allowed = << >>
    /\ title = << >>

\* no page at hand
NoPage == [html |-> FALSE, title_tag |-> << >>, content_type |-> << >>]

InitState ==
    /\ InitRun
    /\ text = << >>
    /\ page = NoPage

\* a run on a seed file of canonical URLs
Init ==
    /\ size \in 2..MaxSize
    /\ max_depth \in 0..MaxDepth
    /\ max_urls_per_domain \in 1..MaxQuota
    /\ urls_file \in { File(lines) : lines \in SeqsUpTo(SEEDS, MaxSeeds) }
    /\ respect_robots_txt = TRUE
    /\ InitState

\* the seed files of 0..MaxSeeds lines, and the missing file
FILES == { NoFile } \cup { File(lines) : lines \in SeqsUpTo(LINES, MaxSeeds) }

\* a run without link extraction on any seed file
InitBoot ==
    /\ size \in 2..MaxSize
    /\ max_depth = 0
    /\ max_urls_per_domain \in 1..MaxQuota
    /\ urls_file \in FILES
    /\ respect_robots_txt = TRUE
    /\ InitState

(***************************************************************************)
(* The master: run_master.                                                 *)
(***************************************************************************)
\* lines 68-72: no valid seed URL
NoSeeds ==
    /\ pc = "bootstrap"
    /\ seed_urls = << >>
    /\ tag0' = terminate_all_workers(tag0)
    /\ pc' = "no_seeds"
    /\ UNCHANGED << config_vars, visited_urls, work_queue, enqueued, active_workers,
                    domain_counts,
                    total_processed, urls_sent, results_received, tag1, wpc, work_item,
                    urls_processed, sent_log, recv_count, skip_log, store_vars, frame_vars >>

\* deque.pop: the work item at the right end
popleft_pop(queue) ==
    [item |-> queue[Len(queue)], rest |-> SubSeq(queue, 1, Len(queue) - 1)]

\* lines 89 and 108, work_queue.popleft(): the work item at the left end
\* and the queue without it
popleft(queue) == [item |-> Head(queue), rest |-> Tail(queue)]

\* lines 87-89: n times popleft
RECURSIVE popleft_n(_, _)
popleft_n(queue, n) ==
    IF n = 0 THEN [items |-> << >>, rest |-> queue]
    ELSE LET first == popleft(queue)
             others == popleft_n(first.rest, n - 1)
         IN  [items |-> << first.item >> \o others.items, rest |-> others.rest]

\* the range one short: range(1, min(size, len))
InitialCount_short(n_procs, queued) == Min(n_procs, queued) - 1

\* line 87: the number of ranks in range(1, min(size, len(work_queue) + 1))
InitialCount(n_procs, queued) == Min(n_procs, queued + 1) - 1

\* lines 68-93: the seeds are queued and the initial work is distributed, the
\* k-th work item to worker k, for the ranks of range(1, min(size, len + 1))
Bootstrap ==
    /\ pc = "bootstrap"
    /\ seed_urls # << >>
    /\ LET f == SeedQueue(seed_urls, 1, [queue |-> << >>, visited |-> {}])
           n == InitialCount(size, Len(f.queue))
           initial == popleft_n(f.queue, n)
       IN  /\ visited_urls' = f.visited
           /\ enqueued' = f.queue
           /\ work_queue' = initial.rest
           /\ tag0' = [worker_rank \in DOMAIN tag0 |->
                         IF worker_rank \in 1..n
                         THEN Append(tag0[worker_rank], initial.items[worker_rank])
                         ELSE tag0[worker_rank]]
           /\ active_workers' = 1..n
           /\ urls_sent' = n
           /\ sent_log' = [k \in 1..n |-> [url |-> initial.items[k].url,
                                           depth |-> initial.items[k].depth,
                                           dest |-> k]]
    /\ pc' = "main_loop"
    /\ UNCHANGED << config_vars, domain_counts, total_processed, results_received,
                    tag1, wpc, work_item, urls_processed, recv_count, skip_log, store_vars, frame_vars >>

\* line 96: the condition of the main coordination loop
LoopCondition == results_received < urls_sent \/ work_queue # << >>

\* the next work item sent to the first worker, whoever replied
NextDest_first(worker_rank) == 1

\* line 109: the worker that gets the next work item after worker_rank's result
NextDest(worker_rank) == worker_rank

\* the discard of line 114 left out
IdleWorker_keep(worker_rank) == active_workers

\* active_workers.clear() in place of the discard of line 114
IdleWorker_clear(worker_rank) == {}

\* lines 113-114: active_workers once worker_rank got no further work
IdleWorker(worker_rank) == active_workers \ { worker_rank }

\* the signal sent on "not self.work_queue" alone
InLoopSignal_unguarded(worker_rank, active) == TRUE

\* line 117: the condition under which the loop sends the termination signal
\* to worker_rank, evaluated where the queue is empty, after the discard
InLoopSignal(worker_rank, active) == worker_rank \in active

\* the increment of line 101 left out
CountResult_forget(n) == n

\* line 101: results_received after one more result
CountResult(n) == n + 1

\* the next message sent before the result is processed
Effects_sendfirst(process_ops, send_ops) == send_ops \o process_ops

\* lines 104-118: an iteration processes the result, then answers the worker
Effects(process_ops, send_ops) == process_ops \o send_ops

\* lines 97-118: one iteration of the main loop, on the result of worker_rank
MasterIteration(worker_rank) ==
    /\ pc = "main_loop"
    /\ LoopCondition
    /\ tag1[worker_rank] # << >>
    /\ LET result == Head(tag1[worker_rank])
       IN  \E links \in Orders(result.links), ok_result, ok_links \in WriteOutcomes :
             LET f == LinksAfterWrite(result, links, ok_result)
                 send_ops == IF f.queue # << >>
                             THEN << [op |-> "send", worker |-> NextDest(worker_rank)] >>
                             ELSE << >>
             IN  /\ tag1' = [tag1 EXCEPT ![worker_rank] = Tail(@)]
                 /\ crawled_urls' = insert_crawl_result(crawled_urls, result, ok_result)
                 /\ discovered_links' =
                        IF f.new_links # {}
                        THEN insert_discovered_links(discovered_links, result.url,
                                                     EdgeTargets(result, f),
                                                     result.depth + 1, ok_links)
                        ELSE discovered_links
                 /\ effects' = Effects(ProcessOps(result, worker_rank, f), send_ops)
                 /\ results_received' = CountResult(results_received)
                 /\ total_processed' = total_processed + 1
                 /\ visited_urls' = f.visited
                 /\ enqueued' = enqueued \o SubSeq(f.queue, Len(work_queue) + 1, Len(f.queue))
                 /\ skip_log' = f.skipped
                 /\ domain_counts' = UpdateDomainCounts(result)
                 /\ IF f.queue # << >>
                    THEN /\ work_queue' = popleft(f.queue).rest
                         /\ tag0' = [tag0 EXCEPT ![NextDest(worker_rank)] =
                                                    Append(@, popleft(f.queue).item)]
                         /\ urls_sent' = urls_sent + 1
                         /\ sent_log' = Append(sent_log,
                                               [url |-> popleft(f.queue).item.url,
                                                depth |-> popleft(f.queue).item.depth,
                                                dest |-> NextDest(worker_rank)])
                         /\ UNCHANGED active_workers
                    ELSE /\ work_queue' = f.queue
                         /\ active_workers' = IdleWorker(worker_rank)
                         /\ tag0' = IF InLoopSignal(worker_rank, IdleWorker(worker_rank))
                                    THEN [tag0 EXCEPT ![worker_rank] = Append(@, None)]
                                    ELSE tag0
                         /\ UNCHANGED << urls_sent, sent_log >>
    /\ UNCHANGED << config_vars, pc, wpc, work_item, urls_processed, recv_count,
                    frame_vars >>

\* lines 96, 124-125: the loop ends and every worker is terminated
Shutdown ==
    /\ pc = "main_loop"
    /\ ~ LoopCondition
    /\ tag0' = terminate_all_workers(tag0)
    /\ pc' = "shutdown"
    /\ UNCHANGED << config_vars, visited_urls, work_queue, enqueued, active_workers,
                    domain_counts,
                    total_processed, urls_sent, results_received, tag1, wpc, work_item,
                    urls_processed, sent_log, recv_count, skip_log, store_vars, frame_vars >>

(***************************************************************************)
(* The workers: run_worker.                                                *)
(***************************************************************************)
\* lines 148-153: the termination signal ends the loop
WorkerTerminate(w) ==
    /\ wpc[w] = "recv"
    /\ tag0[w] # << >>
    /\ Head(tag0[w]) = None
    /\ tag0' = [tag0 EXCEPT ![w] = Tail(@)]
    /\ wpc' = [wpc EXCEPT ![w] = "finished"]
    /\ UNCHANGED << config_vars, master_vars, tag1, work_item, urls_processed,
                    sent_log, recv_count, skip_log, store_vars, frame_vars >>

\* lines 148-155: a work item is received
WorkerReceive(w) ==
    /\ wpc[w] = "recv"
    /\ tag0[w] # << >>
    /\ Head(tag0[w]) # None
    /\ tag0' = [tag0 EXCEPT ![w] = Tail(@)]
    /\ work_item' = [work_item EXCEPT ![w] = Head(tag0[w])]
    /\ recv_count' = [recv_count EXCEPT ![w] = @ + 1]
    /\ wpc' = [wpc EXCEPT ![w] = "crawl"]
    /\ UNCHANGED << config_vars, master_vars, tag1, urls_processed, sent_log, skip_log, store_vars, frame_vars >>

\* a crawl whose request fails raises instead of returning a result: the
\* worker leaves its loop through the handler of lines 166-167
WorkerCrawl_raise(w) ==
    /\ wpc[w] = "crawl"
    /\ \E result \in crawl_url(work_item[w].url, work_item[w].depth) :
         IF result.status = "request_error"
         THEN /\ wpc' = [wpc EXCEPT ![w] = "finished"]
              /\ UNCHANGED << tag1, urls_processed >>
         ELSE /\ tag1' = [tag1 EXCEPT ![w] = Append(@, result)]
              /\ urls_processed' = [urls_processed EXCEPT ![w] = @ + 1]
              /\ wpc' = [wpc EXCEPT ![w] = "recv"]
    /\ work_item' = [work_item EXCEPT ![w] = None]
    /\ UNCHANGED << config_vars, master_vars, tag0, sent_log, recv_count, skip_log, store_vars, frame_vars >>

\* lines 157-164: the URL is crawled and the result is sent to the master
WorkerCrawl(w) ==
    /\ wpc[w] = "crawl"
    /\ \E result \in crawl_url(work_item[w].url, work_item[w].depth) :
         tag1' = [tag1 EXCEPT ![w] = Append(@, result)]
    /\ urls_processed' = [urls_processed EXCEPT ![w] = @ + 1]
    /\ work_item' = [work_item EXCEPT ![w] = None]
    /\ wpc' = [wpc EXCEPT ![w] = "recv"]
    /\ UNCHANGED << config_vars, master_vars, tag0, sent_log, recv_count, skip_log, store_vars, frame_vars >>

Next ==
    \/ NoSeeds
    \/ Bootstrap
    \/ \E w \in Workers : MasterIteration(w)
    \/ Shutdown
    \/ \E w \in Workers : WorkerTerminate(w)
    \/ \E w \in Workers : WorkerReceive(w)
    \/ \E w \in Workers : WorkerCrawl(w)

Spec == Init /\ [][Next]_vars

\* the runs on any seed file
BootSpec == InitBoot /\ [][Next]_vars

(***************************************************************************)
(* The processes: main() of main.py around run_master and run_worker.      *)
(***************************************************************************)
\* main leaves its try block in rank to return code: the finally clause
\* takes the process to comm.Barrier() first
LeaveTry(rank, code) ==
    /\ main_pc' = [main_pc EXCEPT ![rank] = "barrier"]
    /\ exit_code' = [r \in DOMAIN exit_code \cup { rank } |->
                        IF r = rank THEN code ELSE exit_code[r]]

\* line 51 raises in rank 0: sqlite3 cannot open or initialise the store.
\* The handler of lines 68-70 returns 1.
StoreInitFails ==
    /\ main_pc[0] = "run"
    /\ pc = "bootstrap"
    /\ pc' = "init_failed"
    /\ LeaveTry(0, 1)
    /\ UNCHANGED << config_vars, visited_urls, work_queue, enqueued, active_workers,
                    domain_counts,
                    total_processed, urls_sent, results_received, tag0, tag1, wpc,
                    work_item, urls_processed, sent_log, recv_count, skip_log, store_vars,
                    store_faulty, core_vars >>

\* lines 59, 71-82: run_master returned, main goes on to return 0
MasterReturn ==
    /\ main_pc[0] = "run"
    /\ pc \in { "no_seeds", "shutdown" }
    /\ LeaveTry(0, 0)
    /\ UNCHANGED << config_vars, master_vars, tag0, tag1, wpc, work_item, urls_processed,
                    sent_log, recv_count, skip_log, store_vars, store_faulty, core_vars >>

\* lines 63, 71-82: run_worker returned, main goes on to return 0
WorkerReturn(w) ==
    /\ main_pc[w] = "run"
    /\ wpc[w] = "finished"
    /\ LeaveTry(w, 0)
    /\ UNCHANGED << config_vars, master_vars, tag0, tag1, wpc, work_item, urls_processed,
                    sent_log, recv_count, skip_log, store_vars, store_faulty, core_vars >>

\* lines 17-20: SIGINT reaches the master before its loop has ended.
\* sys.exit(0) raises SystemExit, which neither line 130 of run_master nor
\* lines 65-70 of main catch.
InterruptMaster ==
    /\ main_pc[0] = "run"
    /\ pc \in { "bootstrap", "main_loop" }
    /\ pc' = "interrupted"
    /\ LeaveTry(0, 0)
    /\ UNCHANGED << config_vars, visited_urls, work_queue, enqueued, active_workers,
                    domain_counts,
                    total_processed, urls_sent, results_received, tag0, tag1, wpc,
                    work_item, urls_processed, sent_log, recv_count, skip_log, store_vars,
                    store_faulty, core_vars >>

\* lines 17-20: SIGINT reaches worker w in its loop; SystemExit passes the
\* handler of lines 166-167
InterruptWorker(w) ==
    /\ main_pc[w] = "run"
    /\ wpc[w] \in { "recv", "crawl" }
    /\ wpc' = [wpc EXCEPT ![w] = "interrupted"]
    /\ LeaveTry(w, 0)
    /\ UNCHANGED << config_vars, master_vars, tag0, tag1, work_item, urls_processed,
                    sent_log, recv_count, skip_log, store_vars, store_faulty, core_vars >>

\* line 74: comm.Barrier() returns once every rank has called it
Barrier ==
    /\ \A rank \in 0..(size - 1) : main_pc[rank] = "barrier"
    /\ main_pc' = [rank \in 0..(size - 1) |-> "exited"]
    /\ UNCHANGED << config_vars, master_vars, tag0, tag1, wpc, work_item, urls_processed,
                    sent_log, recv_count, skip_log, store_vars, store_faulty, exit_code,
                    core_vars >>

\* what the processes do by themselves
ProgramStep ==
    \/ Next
    \/ StoreInitFails
    \/ MasterReturn
    \/ \E w \in Workers : WorkerReturn(w)
    \/ Barrier

NextMain ==
    \/ ProgramStep
    \/ InterruptMaster
    \/ \E w \in Workers : InterruptWorker(w)

\* the runs of main on any seed file, the store failing or not, with SIGINT
MainSpec == InitBoot /\ [][NextMain]_vars

(***************************************************************************)
(* The crawler core of rank 1: crawl_url followed statement by statement,  *)
(* in a run of one master and one worker.  The web decides what            *)
(* robots.txt says, what a request returns and how long things take.       *)
(***************************************************************************)
\* what crawl_url leaves alone
run_vars == << config_vars, master_vars, tag0, tag1, wpc, work_item, urls_processed,
              sent_log, recv_count, skip_log, store_vars, store_faulty, main_pc,
              exit_code, respect_robots_txt, unit_vars >>

\* config.crawl_delay, in seconds
crawl_delay == 1

\* _is_robots_allowed line 188: the key of robots_cache
Origin(url) == [scheme |-> url.scheme, netloc |-> url.netloc]

\* The entries of robots_cache: None after a read that raised, else the
\* parser, which is the set of URLs its robots.txt disallows for the agent;
\* failed tells that robots.txt could not be fetched or parsed.
NoParser == [read |-> FALSE, disallow |-> {}, failed |-> TRUE]
Parser(policy) == [read |-> TRUE, disallow |-> policy, failed |-> FALSE]

\* the robots.txt files the site can serve
POLICIES == SUBSET { Url("c.test", <<"/">>), Url("c.test", <<"/", "a">>) }

\* a parser that allows everything
can_fetch_all(policy, url) == TRUE

\* RobotFileParser.can_fetch
can_fetch(policy, url) == url \notin policy

\* _is_robots_allowed lines 204-208, on the entry of the cache
is_robots_allowed(entry, url) ==
    IF ~ entry.read THEN TRUE ELSE can_fetch(entry.disallow, url)

\* What rp.read() of line 197 can do.  It raises when the request fails
\* below HTTP or the body cannot be decoded.  An HTTP error status does not
\* raise: RobotFileParser.read catches it, disallows everything on 401 and
\* 403, allows everything on another 4xx, and on 5xx returns with the
\* parser as it was made, which answers no to every can_fetch.
READS == { [kind |-> k, policy |-> {}] :
             k \in { "raised", "unauthorized", "missing", "server_error" } }
         \cup { [kind |-> "ok", policy |-> policy] : policy \in POLICIES }

\* lines 194-202: the entry that is cached after rp.read()
robots_read(outcome) ==
    CASE outcome.kind = "raised" -> NoParser
      [] outcome.kind = "unauthorized" -> [read |-> TRUE, disallow |-> URLS, failed |-> TRUE]
      [] outcome.kind = "missing" -> [read |-> TRUE, disallow |-> {}, failed |-> TRUE]
      [] outcome.kind = "server_error" -> [read |-> TRUE, disallow |-> URLS, failed |-> TRUE]
      [] OTHER -> Parser(outcome.policy)

\* only a parser is kept, a failed read is tried again
cache_entry_parsers(cache, origin, entry) ==
    IF entry.read
    THEN [o \in DOMAIN cache \cup { origin } |-> IF o = origin THEN entry ELSE cache[o]]
    ELSE cache

\* lines 198 and 201: self.robots_cache[domain] = ...
cache_entry(cache, origin, entry) ==
    [o \in DOMAIN cache \cup { origin } |-> IF o = origin THEN entry ELSE cache[o]]

\* lines 98-104: a GET to domain starts at time t; the history keeps the
\* start times of the domain's last two
started(starts, domain, t) ==
    [d \in DOMAIN starts \cup { domain } |->
        IF d # domain THEN starts[d]
        ELSE IF d \in DOMAIN starts
             THEN << starts[d][Len(starts[d])], t >>
             ELSE << t >>]

\* What session.get can return: a RequestException (raise_for_status
\* included), a body that is not HTML, or an HTML page.
RESPONSES == { [ok |-> FALSE, html |-> FALSE] } \cup { [ok |-> TRUE, html |-> h] : h \in BOOLEAN }

\* the handler only logs, the status is left as it was
OnRequestException_log(r) == r

\* lines 146-148
OnRequestException(r) == [r EXCEPT !.status = "request_error"]

\* lines 150-152
OnException(r) == [r EXCEPT !.status = "parse_error"]

\* the links kept at any depth
ExtractedLinks_any(depth, discovered, raised) ==
    IF raised THEN {} ELSE { link \in discovered : is_url_allowed(link) }

\* lines 125-140: the links of a result at depth, discovered being what
\* extract_links_from_html found and raised telling whether it raised
ExtractedLinks(depth, discovered, raised) ==
    IF depth < max_depth
    THEN IF raised THEN {} ELSE { link \in discovered : is_url_allowed(link) }
    ELSE {}

\* run_worker lines 157-158 and crawl_url lines 64-81: the worker calls
\* crawl_url with the work item it received
CrawlStart ==
    /\ wpc[1] = "crawl"
    /\ cpc = "idle"
    /\ job' = work_item[1]
    /\ crawl_result' = Result(work_item[1].url, work_item[1].depth, "error", {})
    /\ events' = << >>
    /\ cpc' = "admission"
    /\ UNCHANGED << run_vars, robots_cache, last_request_time, get_starts,
                    robots_fetches, now, response >>

\* the rate limit enforced before the configuration is asked
CrawlBlocked_stamped ==
    /\ cpc = "admission"
    /\ ~ is_url_allowed(job.url)
    /\ crawl_result' = [crawl_result EXCEPT !.status = "blocked"]
    /\ last_request_time' =
          [d \in DOMAIN last_request_time \cup { crawl_result.domain } |-> now]
    /\ events' = Append(events, "stamp")
    /\ cpc' = "return"
    /\ UNCHANGED << run_vars, robots_cache, get_starts, robots_fetches, now, job,
                    response >>

\* lines 83-86: the configuration does not allow the URL
CrawlBlocked ==
    /\ cpc = "admission"
    /\ ~ is_url_allowed(job.url)
    /\ crawl_result' = [crawl_result EXCEPT !.status = "blocked"]
    /\ cpc' = "return"
    /\ UNCHANGED << run_vars, robots_cache, last_request_time, get_starts,
                    robots_fetches, now, job, response, events >>

\* lines 83, 89 and 159-172: the URL is allowed; _enforce_rate_limit sleeps
\* until crawl_delay has passed since the domain's time stamp, then stamps
EnforceRateLimit ==
    /\ cpc = "admission"
    /\ is_url_allowed(job.url)
    /\ LET domain == crawl_result.domain
           sleeps == /\ domain \in DOMAIN last_request_time
                     /\ now - last_request_time[domain] < crawl_delay
           woken == IF sleeps THEN last_request_time[domain] + crawl_delay ELSE now
       IN  /\ now' = woken
           /\ last_request_time' =
                 [d \in DOMAIN last_request_time \cup { domain } |->
                    IF d = domain THEN woken ELSE last_request_time[d]]
           /\ events' = events \o (IF sleeps THEN << "sleep" >> ELSE << >>) \o << "stamp" >>
    /\ cpc' = "robots"
    /\ UNCHANGED << run_vars, robots_cache, get_starts, robots_fetches, job,
                    crawl_result, response >>

\* line 92: robots.txt is not respected
RobotsSkipped ==
    /\ cpc = "robots"
    /\ ~ respect_robots_txt
    /\ cpc' = "get"
    /\ UNCHANGED << run_vars, robots_cache, last_request_time, get_starts,
                    robots_fetches, now, job, crawl_result, response, events >>

\* lines 92-95 and 174-212: _is_robots_allowed reads robots.txt of an origin
\* that is not in the cache, then answers from the cache
CheckRobots ==
    /\ cpc = "robots"
    /\ respect_robots_txt
    /\ LET origin == Origin(job.url)
           cached == origin \in DOMAIN robots_cache
       IN  \E entry \in (IF cached THEN { robots_cache[origin] }
                          ELSE { robots_read(outcome) : outcome \in READS }) :
             /\ robots_cache' = IF cached THEN robots_cache
                                ELSE cache_entry(robots_cache, origin, entry)
             /\ robots_fetches' =
                   IF cached THEN robots_fetches
                   ELSE [o \in DOMAIN robots_fetches \cup { origin } |->
                           IF o = origin
                           THEN (IF o \in DOMAIN robots_fetches
                                 THEN robots_fetches[o] ELSE 0) + 1
                           ELSE robots_fetches[o]]
             /\ events' = IF cached THEN events ELSE Append(events, "robots_fetch")
             /\ IF is_robots_allowed(entry, job.url)
                THEN /\ cpc' = "get"
                     /\ UNCHANGED crawl_result
                ELSE /\ crawl_result' = [crawl_result EXCEPT !.status = "robots_blocked"]
                     /\ cpc' = "return"
    /\ UNCHANGED << run_vars, last_request_time, get_starts, now, job, response >>

\* lines 98-107: the request is made
Get ==
    /\ cpc = "get"
    /\ events' = Append(events, "get")
    /\ \E r \in RESPONSES :
         IF r.ok
         THEN /\ response' = r
              /\ cpc' = "parse"
              /\ UNCHANGED crawl_result
         ELSE /\ crawl_result' = OnRequestException(crawl_result)
              /\ cpc' = "return"
              /\ UNCHANGED response
    /\ get_starts' = started(get_starts, crawl_result.domain, now)
    /\ UNCHANGED << run_vars, robots_cache, last_request_time, robots_fetches,
                    now, job >>

\* lines 110-152: the body is parsed; "page" is an exception of lines
\* 115-122, "links" one of lines 127-136, and discovered is what
\* extract_links_from_html finds in the page
Parse ==
    /\ cpc = "parse"
    /\ \E raises \in (IF ~ response.html THEN { "none" }
                       ELSE IF job.depth < max_depth THEN { "none", "page", "links" }
                       ELSE { "none", "page" }),
          discovered \in (IF response.html THEN SUBSET URLS ELSE { {} }) :
         /\ crawl_result' =
               IF raises = "page" THEN OnException(crawl_result)
               ELSE [crawl_result EXCEPT
                        !.links = IF response.html
                                  THEN ExtractedLinks(job.depth, discovered, raises = "links")
                                  ELSE @,
                        !.status = "success"]
         /\ events' = IF raises = "none" THEN events ELSE Append(events, "parse_exception")
    /\ response' = None
    /\ cpc' = "return"
    /\ UNCHANGED << run_vars, robots_cache, last_request_time, get_starts,
                    robots_fetches, now, job >>

\* crawl_url lines 154-157 and run_worker lines 160-164: crawl_url returns
\* and the worker sends the result to the master
WorkerSend ==
    /\ wpc[1] = "crawl"
    /\ cpc = "return"
    /\ tag1' = [tag1 EXCEPT ![1] = Append(@, crawl_result)]
    /\ urls_processed' = [urls_processed EXCEPT ![1] = @ + 1]
    /\ work_item' = [work_item EXCEPT ![1] = None]
    /\ wpc' = [wpc EXCEPT ![1] = "recv"]
    /\ cpc' = "idle"
    /\ UNCHANGED << config_vars, master_vars, tag0, sent_log, recv_count, skip_log,
                    store_vars, store_faulty, main_pc, exit_code, respect_robots_txt,
                    robots_cache, last_request_time, get_starts, robots_fetches, now,
                    job, crawl_result, response, events, unit_vars >>

\* a second passes
Tick ==
    /\ now < MaxTime
    /\ now' = now + 1
    /\ UNCHANGED << run_vars, robots_cache, last_request_time, get_starts,
                    robots_fetches, cpc, job, crawl_result, response, events >>

\* the steps of crawl_url
CrawlStep ==
    \/ CrawlStart
    \/ CrawlBlocked
    \/ EnforceRateLimit
    \/ RobotsSkipped
    \/ CheckRobots
    \/ Get
    \/ Parse

NextCrawl ==
    \/ NoSeeds
    \/ Bootstrap
    \/ MasterIteration(1)
    \/ Shutdown
    \/ WorkerTerminate(1)
    \/ WorkerReceive(1)
    \/ CrawlStep
    \/ WorkerSend
    \/ Tick

\* a run of one master and one worker on a seed file of canonical URLs
InitCrawl ==
    /\ size = 2
    /\ max_depth \in 0..MaxDepth
    /\ max_urls_per_domain = MaxQuota
    /\ urls_file \in { File(lines) : lines \in SeqsUpTo(SEEDS, MaxSeeds) }
    /\ respect_robots_txt \in BOOLEAN
    /\ InitState

CrawlSpec == InitCrawl /\ [][NextCrawl]_vars

(***************************************************************************)
(* The store on its own: any sequence of calls of insert_crawl_result and  *)
(* insert_discovered_links, as one run or several runs on the same         *)
(* database file make them.                                                *)
(***************************************************************************)
\* the number of calls made to the store
MaxCalls == 3

\* the URLs of the calls
STORE_URLS == { Url("c.test", <<"/">>), Url("c.test", <<"/", "a">>), Url("c.test", <<"/", "b">>) }

\* the results insert_crawl_result is called with
STORE_RESULTS ==
    { Result(url, depth, status, {}) :
        url \in { Url("c.test", <<"/">>), Url("c.test", <<"/", "a">>) },
        depth \in 0..MaxDepth, status \in { "success", "request_error" } }

\* what a call to the store leaves alone
caller_vars == << config_vars, master_vars, tag0, tag1, wpc, work_item, urls_processed,
                 sent_log, recv_count, skip_log, effects, store_faulty, main_pc,
                 exit_code, respect_robots_txt, robots_cache, last_request_time,
                 get_starts, robots_fetches, now, cpc, job, crawl_result, response,
                 events >>

\* database_manager.py lines 101-132: a call of insert_crawl_result
InsertResult ==
    /\ store_calls < MaxCalls
    /\ \E result \in STORE_RESULTS, ok \in BOOLEAN :
         /\ crawled_urls' = insert_crawl_result(crawled_urls, result, ok)
         /\ written' =
               IF ok
               THEN [url \in DOMAIN written \cup { result.url } |->
                       IF url = result.url
                       THEN (IF url \in DOMAIN written THEN written[url] ELSE << >>)
                            \o << Row(result) >>
                       ELSE written[url]]
               ELSE written
    /\ store_calls' = store_calls + 1
    /\ UNCHANGED << caller_vars, url_vars, title_vars, discovered_links >>

\* database_manager.py lines 134-159: a call of insert_discovered_links
InsertEdges ==
    /\ store_calls < MaxCalls
    /\ \E source_url \in STORE_URLS, target_urls \in SUBSET STORE_URLS \ { {} },
          depth \in 1..(MaxDepth + 1), ok \in BOOLEAN :
         discovered_links' =
             insert_discovered_links(discovered_links, source_url, target_urls, depth, ok)
    /\ store_calls' = store_calls + 1
    /\ UNCHANGED << caller_vars, url_vars, title_vars, crawled_urls, written >>

NextStore ==
    \/ InsertResult
    \/ InsertEdges

\* a database that was just created
InitStore ==
    /\ size = 2
    /\ max_depth = MaxDepth
    /\ max_urls_per_domain = MaxQuota
    /\ urls_file = File(<< >>)
    /\ respect_robots_txt = TRUE
    /\ InitState

StoreSpec == InitStore /\ [][NextStore]_vars


(***************************************************************************)
(* The URL functions on their own: normalize_url applied to a URL and to   *)
(* its own result, and is_url_allowed of the default configuration.  A URL *)
(* as it is written is the sequence of its parts: the scheme, "://", the   *)
(* host and the characters of the port, the characters of the path, and    *)
(* "?" with the query.                                                     *)
(***************************************************************************)
\* urllib.parse.urlparse, for texts without parameters and fragment
urlparse(t) ==
    IF Len(t) >= 2 /\ t[2] = "://"
    THEN LET rest == SubSeq(t, 3, Len(t))
             stops == { i \in 1..Len(rest) : rest[i] \in { "/", "?" } }
             n == IF stops = {} THEN Len(rest)
                  ELSE (CHOOSE i \in stops : \A j \in stops : i <= j) - 1
             after == SubSeq(rest, n + 1, Len(rest))
             marks == { i \in 1..Len(after) : after[i] = "?" }
             p == IF marks = {} THEN Len(after)
                  ELSE (CHOOSE i \in marks : \A j \in marks : i <= j) - 1
         IN  [scheme |-> t[1], netloc |-> SubSeq(rest, 1, n),
              path |-> SubSeq(after, 1, p), query |-> SubSeq(after, p + 2, Len(after))]
    ELSE [scheme |-> "", netloc |-> << >>, path |-> t, query |-> << >>]

\* urllib.parse.urlunparse of a scheme, a netloc, a path and a query
urlunparse(parts) ==
    << parts.scheme, "://" >> \o parts.netloc
    \o (IF parts.path # << >> /\ parts.path[1] # "/" THEN << "/" >> ELSE << >>)
    \o parts.path
    \o (IF parts.query # << >> THEN << "?" >> \o parts.query ELSE << >>)

\* utils.normalize_url on the text of a URL: urlparse (line 54), the
\* components normalized, urlunparse (line 86); ok is FALSE for None
normalize_text(t) ==
    LET parts == normalize_url(urlparse(t))
    IN  IF parts = None THEN [ok |-> FALSE, text |-> << >>]
        ELSE [ok |-> TRUE, text |-> urlunparse(parts)]

\* the URLs the functions are called with
SCHEMES == { "http", "https", "ftp" }
NETLOCS ==
    { << >>, << "c.test" >>, << "C.TEST" >>,
      << "c.test", ":", "8", "0" >>, << "c.test", ":", "4", "4", "3" >>,
      << "c.test", ":", "8", "0", "8", "0" >>, << "c.test", ":", "8", "0", "0", "0" >>,
      << "c.test", ":", "4", "4", "3", "0" >>, << "c.test", ":", "8", "1" >> }
PATHS ==
    { << >>, << "/" >>, << "/", "/" >>, << "/", "a" >>, << "/", "a", "/" >>,
      << "/", "a", "/", "/" >>,
      << "/", "s", ".", "c", "s", "s" >>, << "/", "s", ".", "x", "m", "l" >>,
      << "/", "p", ".", "h", "t", "m", "l" >>, << "/", "f", ".", "p", "d", "f" >>,
      << "/", "v", ".", "1", "/", "a" >> }
QUERIES == { << >>, << "q" >> }
TEXTS ==
    { urlunparse([scheme |-> s, netloc |-> n, path |-> p, query |-> q]) :
        s \in SCHEMES, n \in NETLOCS, p \in PATHS, q \in QUERIES }

\* what a call of a URL function leaves alone
program_vars == << caller_vars, store_vars, written, store_calls >>

\* normalize_url(text)
Normalize ==
    /\ normalized = << >>
    /\ normalized' = << normalize_text(text) >>
    /\ UNCHANGED << program_vars, title_vars, text, renormalized, allowed >>

\* normalize_url of what normalize_url returned
Renormalize ==
    /\ normalized # << >>
    /\ normalized[1].ok
    /\ renormalized = << >>
    /\ renormalized' = << normalize_text(normalized[1].text) >>
    /\ UNCHANGED << program_vars, title_vars, text, normalized, allowed >>

\* config.is_url_allowed(text), which parses the text itself (line 69)
IsAllowed ==
    /\ allowed = << >>
    /\ allowed' = << is_url_allowed(urlparse(text)) >>
    /\ UNCHANGED << program_vars, title_vars, text, normalized, renormalized >>

NextUrl ==
    \/ Normalize
    \/ Renormalize
    \/ IsAllowed

\* the default configuration and a URL
InitUrl ==
    /\ size = 2
    /\ max_depth = MaxDepth
    /\ max_urls_per_domain = MaxQuota
    /\ urls_file = File(<< >>)
    /\ respect_robots_txt = TRUE
    /\ InitRun
    /\ text \in TEXTS
    /\ page = NoPage

UrlSpec == InitUrl /\ [][NextUrl]_vars

(***************************************************************************)
(* The title of a result: lines 114-142 of crawl_url on a response, whose  *)
(* texts are the sequences of their characters.                            *)
(***************************************************************************)
\* the longest title text of a page
MaxTitle == 203

\* max_length of the call of clean_text at crawler_core.py line 120
title_max_length == 200

\* str.strip, of blanks
RECURSIVE strip(_)
strip(t) ==
    IF t = << >> THEN t
    ELSE IF t[1] = " " THEN strip(Tail(t))
    ELSE IF t[Len(t)] = " " THEN strip(SubSeq(t, 1, Len(t) - 1))
    ELSE t

\* re.sub(r'\s+', ' ', t): a run of blanks becomes one blank; computed on
\* the two halves of t, a run across the middle joined
RECURSIVE collapse(_)
collapse(t) ==
    IF Len(t) < 2 THEN t
    ELSE LET half == Len(t) \div 2
             left == collapse(SubSeq(t, 1, half))
             right == collapse(SubSeq(t, half + 1, Len(t)))
         IN  IF left[Len(left)] = " " /\ right[1] = " "
             THEN left \o Tail(right)
             ELSE left \o right

\* utils.clean_text
clean_text(t, max_length) ==
    IF t = << >> THEN << >>
    ELSE LET cleaned == collapse(strip(t))
         IN  IF Len(cleaned) > max_length
             THEN SubSeq(cleaned, 1, max_length) \o << ".", ".", "." >>
             ELSE cleaned

\* 'No Title Found'
NoTitleFound == << "N", "o", " ", "T", "i", "t", "l", "e", " ", "F", "o", "u", "n", "d" >>

\* crawl_url lines 114-142: the title given to the result of a response
page_title(response_page) ==
    IF response_page.html
    THEN IF response_page.title_tag # << >>
         THEN clean_text(response_page.title_tag[1], title_max_length)
         ELSE NoTitleFound
    ELSE << "N", "o", "n", "-", "H", "T", "M", "L", " ", "c", "o", "n", "t", "e", "n", "t",
            " ", "(" >> \o response_page.content_type \o << ")" >>

\* n letters
Letters(n) == [i \in 1..n |-> "x"]

\* the texts of title tags: words of up to MaxTitle letters, alone or among
\* blanks and a second word
TITLE_TEXTS ==
    { Letters(n) : n \in 0..MaxTitle }
    \cup { << " " >> \o Letters(n) \o << " ", " ", "y", " " >> : n \in 1..MaxTitle }

\* the responses: HTML with a title tag, HTML without, and a PDF
PAGES ==
    { [html |-> TRUE, title_tag |-> << t >>, content_type |-> << >>] : t \in TITLE_TEXTS }
    \cup { [html |-> TRUE, title_tag |-> << >>, content_type |-> << >>] }
    \cup { [html |-> FALSE, title_tag |-> << >>,
            content_type |-> << "a", "p", "p", "l", "i", "c", "a", "t", "i", "o", "n", "/",
                                "p", "d", "f" >>] }

\* crawl_url lines 114-142
SetTitle ==
    /\ title = << >>
    /\ title' = << page_title(page) >>
    /\ UNCHANGED << program_vars, url_vars, page >>

NextTitle == SetTitle

\* a response to the request of crawl_url
InitTitle ==
    /\ size = 2
    /\ max_depth = MaxDepth
    /\ max_urls_per_domain = MaxQuota
    /\ urls_file = File(<< >>)
    /\ respect_robots_txt = TRUE
    /\ InitRun
    /\ text = << >>
    /\ page \in PAGES

TitleSpec == InitTitle /\ [][NextTitle]_vars

(***************************************************************************)
(* The crawl of a fixed web: every page is fetched and parsed without      *)
(* error, and the links of a page are the same whenever it is crawled.     *)
(***************************************************************************)
\* the pages of the site and the links each of them holds
WEB ==
    [url \in { u \in URLS : u.netloc = << "c.test" >> } |->
        IF url = Url("c.test", <<"/">>) THEN { Url("c.test", <<"/", "b">>) }
        ELSE IF url = Url("c.test", <<"/", "a">>) THEN { Url("c.test", <<"/", "c">>) }
        ELSE IF url = Url("c.test", <<"/", "b">>) THEN { Url("c.test", <<"/", "c">>) }
        ELSE {}]

\* the lines of the seed file: two pages of the site
WEB_SEEDS == { Url("c.test", <<"/">>), Url("c.test", <<"/", "a">>) }

\* run_worker lines 157-164 and crawl_url on the page that WEB holds for
\* the URL: the links are extracted below max_depth (crawl_url lines 125-136)
WorkerCrawlWeb(w) ==
    /\ wpc[w] = "crawl"
    /\ LET url == work_item[w].url
           depth == work_item[w].depth
           links == IF depth < max_depth
                    THEN { link \in WEB[url] : is_url_allowed(link) }
                    ELSE {}
       IN  tag1' = [tag1 EXCEPT ![w] = Append(@, Result(url, depth, "success", links))]
    /\ urls_processed' = [urls_processed EXCEPT ![w] = @ + 1]
    /\ work_item' = [work_item EXCEPT ![w] = None]
    /\ wpc' = [wpc EXCEPT ![w] = "recv"]
    /\ UNCHANGED << config_vars, master_vars, tag0, sent_log, recv_count, skip_log,
                    store_vars, frame_vars >>

NextWeb ==
    \/ Bootstrap
    \/ \E w \in Workers : MasterIteration(w)
    \/ Shutdown
    \/ \E w \in Workers : WorkerTerminate(w)
    \/ \E w \in Workers : WorkerReceive(w)
    \/ \E w \in Workers : WorkerCrawlWeb(w)

\* a run on one or two seeds of the site, to a depth of up to MaxDepth + 1
InitWeb ==
    /\ size \in 2..MaxSize
    /\ max_depth \in 0..(MaxDepth + 1)
    /\ max_urls_per_domain \in 1..MaxQuota
    /\ urls_file \in { File(lines) : lines \in SeqsUpTo(WEB_SEEDS, MaxSeeds) \ { << >> } }
    /\ respect_robots_txt = TRUE
    /\ InitState

WebSpec == InitWeb /\ [][NextWeb]_vars

\* the pages within k links of a seed
RECURSIVE Within(_)
Within(k) ==
    IF k = 0 THEN { seed_urls[i] : i \in 1..Len(seed_urls) }
    ELSE Within(k - 1) \cup UNION { WEB[url] : url \in Within(k - 1) }

\* the least number of links that lead from a seed to url
Distance(url) ==
    CHOOSE k \in 0..Cardinality(DOMAIN WEB) :
        url \in Within(k) /\ (k = 0 \/ url \notin Within(k - 1))

(***************************************************************************)
(* The run with a store that stops taking writes: from some moment on a    *)
(* call of insert_crawl_result or insert_discovered_links may raise inside *)
(* (database locked, disk full), which the call catches.                   *)
(***************************************************************************)
\* database_manager.py lines 130-132 and 157-159: writes begin to fail
StoreBreaks ==
    /\ ~ store_faulty
    /\ pc \in { "bootstrap", "main_loop" }
    /\ store_faulty' = TRUE
    /\ UNCHANGED << config_vars, master_vars, tag0, tag1, wpc, work_item, urls_processed,
                    sent_log, recv_count, skip_log, store_vars, main_pc, exit_code,
                    core_vars >>

NextFault ==
    \/ Next
    \/ StoreBreaks

\* a run of one master and one worker on a seed file of canonical URLs
InitFault ==
    /\ size = 2
    /\ max_depth \in 0..MaxDepth
    /\ max_urls_per_domain = MaxQuota
    /\ urls_file \in { File(lines) : lines \in SeqsUpTo(SEEDS, MaxSeeds) }
    /\ respect_robots_txt = TRUE
    /\ InitState

(***************************************************************************)
(* Fairness: the master process and every worker process keep running,     *)
(* and MPI delivers every message that was sent.                           *)
(***************************************************************************)
MasterStep == NoSeeds \/ Bootstrap \/ (\E w \in Workers : MasterIteration(w)) \/ Shutdown

WorkerStep(w) ==
    /\ w \in Workers
    /\ (WorkerTerminate(w) \/ WorkerReceive(w) \/ WorkerCrawl(w))

FairSpec ==
    /\ Spec
    /\ WF_vars(MasterStep)
    /\ \A w \in 1..(MaxSize - 1) : WF_vars(WorkerStep(w))

\* the run with failing writes, the processes running as in FairSpec
FaultSpec ==
    /\ InitFault /\ [][NextFault]_vars
    /\ WF_vars(MasterStep)
    /\ \A w \in 1..(MaxSize - 1) : WF_vars(WorkerStep(w))

(***************************************************************************)
(* Derived notions.                                                        *)
(***************************************************************************)
\* the work items among the messages of s
RECURSIVE CountWork(_)
CountWork(s) ==
    IF s = << >> THEN 0
    ELSE (IF Head(s) # None THEN 1 ELSE 0) + CountWork(Tail(s))

\* the work items sent to worker w that no result received by the master answers
Outstanding(w) ==
    CountWork(tag0[w]) + (IF wpc[w] = "crawl" THEN 1 ELSE 0) + Len(tag1[w])

RECURSIVE SumOver(_, _)
SumOver(f, S) ==
    IF S = {} THEN 0
    ELSE LET x == CHOOSE y \in S : TRUE
         IN  f[x] + SumOver(f, S \ { x })

\* the URLs of the work items on the way to worker w or in its hands
HeldBy(w) ==
    { tag0[w][i].url : i \in { j \in 1..Len(tag0[w]) : tag0[w][j] # None } }
    \cup (IF wpc[w] = "crawl" THEN { work_item[w].url } ELSE {})

SentUrls == { sent_log[i].url : i \in 1..Len(sent_log) }


(***************************************************************************)
(* C1.  Every URL is sent as a work item at most once: no URL occurs twice *)
(* among the work items sent, a queued URL is queued once and was never    *)
(* sent, and a work item is on its way to, or held by, one worker only.    *)
(***************************************************************************)
C1_DispatchedAtMostOnce ==
    /\ \A i, j \in 1..Len(sent_log) : sent_log[i].url = sent_log[j].url => i = j
    /\ \A i, j \in 1..Len(work_queue) : work_queue[i].url = work_queue[j].url => i = j
    /\ \A i \in 1..Len(work_queue) : work_queue[i].url \notin SentUrls
    /\ \A v, w \in Workers : v # w => HeldBy(v) \cap HeldBy(w) = {}
    /\ \A w \in Workers : Cardinality(HeldBy(w)) = CountWork(tag0[w]) + (IF wpc[w] = "crawl" THEN 1 ELSE 0)

\* a run with a repeated seed in which a result repeated a visited link, and
\* three URLs were sent
C1_Witness ==
    /\ Len(seed_urls) = 2 /\ seed_urls[1] = seed_urls[2]
    /\ "visited" \in skip_log
    /\ Len(sent_log) >= 3

(***************************************************************************)
(* C2.  domain_counts[d] <= max_urls_per_domain for every domain d, in     *)
(* every reachable state of the coordinator.                               *)
(***************************************************************************)
C2_DomainCountsWithinLimit ==
    \A d \in Domains : domain_counts[d] <= max_urls_per_domain

(***************************************************************************)
(* C3.  For every domain whose seeds number at most max_urls_per_domain,   *)
(* the URLs of the domain that were queued (seeds and accepted links, that *)
(* is the domain's URLs in visited_urls) never exceed max_urls_per_domain. *)
(***************************************************************************)
SeedsOf(d) == { u \in SEEDS : get_domain_from_url(u) = d /\ \E i \in 1..Len(seed_urls) : seed_urls[i] = u }

QueuedOf(d) == { u \in visited_urls : get_domain_from_url(u) = d }

C3_QueuedWithinLimit ==
    \A d \in Domains :
        Cardinality(SeedsOf(d)) <= max_urls_per_domain
            => Cardinality(QueuedOf(d)) <= max_urls_per_domain

(***************************************************************************)
(* C4.  Every work item sent has a depth in 0..max_depth, and processing a *)
(* result whose depth is max_depth adds nothing to the frontier.           *)
(***************************************************************************)
DepthsWithinBound ==
    /\ \A i \in 1..Len(sent_log) : sent_log[i].depth \in 0..max_depth
    /\ \A i \in 1..Len(work_queue) : work_queue[i].depth \in 0..max_depth

NoLinkFromMaxDepth ==
    \A w \in Workers :
        ( /\ pc = "main_loop"
          /\ tag1[w] # << >>
          /\ Head(tag1[w]).depth >= max_depth
          /\ tag1'[w] = Tail(tag1[w]) )
        => /\ visited_urls' = visited_urls
           /\ Len(work_queue') <= Len(work_queue)

C4_DepthBound == [] DepthsWithinBound /\ [][NoLinkFromMaxDepth]_vars

\* the result of a work item of depth max_depth >= 1 was processed
C4_Witness ==
    /\ max_depth >= 1
    /\ \E i \in 1..Len(sent_log) : sent_log[i].depth = max_depth
    /\ results_received = urls_sent
    /\ pc = "shutdown"


(***************************************************************************)
(* C5.  With workers that answer every work item (FairSpec), the master    *)
(* that entered the main loop eventually leaves it and reaches the         *)
(* shutdown step, for every number of workers and every interleaving.      *)
(***************************************************************************)
C5_Termination == (pc = "main_loop") ~> (pc = "shutdown")

\* the master shut down after a run in which two workers answered work items
C5_Witness ==
    /\ pc = "shutdown"
    /\ size = 3
    /\ \A w \in Workers : recv_count[w] >= 1
    /\ results_received >= 3

(***************************************************************************)
(* C6.  The master shuts down exactly when the queue and active_workers    *)
(* are empty: at shutdown both are empty and no worker has an unanswered   *)
(* work item, and in the main loop the loop condition is false exactly     *)
(* when both are empty.                                                    *)
(***************************************************************************)
C6_ShutdownIffIdle ==
    /\ pc = "shutdown" =>
          /\ work_queue = << >>
          /\ active_workers = {}
          /\ \A w \in Workers : Outstanding(w) = 0
    /\ pc = "main_loop" =>
          (~ LoopCondition <=> (work_queue = << >> /\ active_workers = {}))

\* the master shut down after work items were sent in the main loop
C6_Witness ==
    /\ pc = "shutdown"
    /\ urls_sent >= 3
    /\ size = 3

(***************************************************************************)
(* C7.  Every worker has at most one work item that was sent to it and is  *)
(* not yet answered by a result the master received.                       *)
(***************************************************************************)
C7_OneJobPerWorker == \A w \in Workers : Outstanding(w) <= 1

\* two workers hold a work item each, one of them its second
C7_Witness ==
    /\ size = 3
    /\ \A w \in Workers : Outstanding(w) = 1
    /\ \E w \in Workers : recv_count[w] >= 2

(***************************************************************************)
(* C8.  A worker sends one result for every work item it receives, on      *)
(* every outcome of the crawl: the results sent (received by the master or *)
(* still on their way) are as many as the work items received, less those  *)
(* being crawled; a worker leaves its loop only on the termination signal; *)
(* and with a running worker every crawl ends in a result (FairSpec).      *)
(***************************************************************************)
ResultsSent == results_received + SumOver([w \in Workers |-> Len(tag1[w])], Workers)

BeingCrawled == Cardinality({ w \in Workers : wpc[w] = "crawl" })

OneResultPerJob ==
    /\ ResultsSent = SumOver(recv_count, Workers) - BeingCrawled
    /\ \A w \in Workers :
          /\ urls_processed[w] = recv_count[w] - (IF wpc[w] = "crawl" THEN 1 ELSE 0)
          /\ wpc[w] = "finished" => pc \in { "shutdown", "no_seeds" }
          /\ \A i \in 1..Len(tag1[w]) : tag1[w][i].status \in STATUSES

C8_OneResultPerJob ==
    /\ [] OneResultPerJob
    /\ \A w \in 1..(MaxSize - 1) :
          (w \in Workers /\ wpc[w] = "crawl") ~> (w \in Workers /\ wpc[w] = "recv")

\* a worker that received two work items replied to the last one with a
\* status other than success, and waits for the next message
C8_Witness ==
    \E w \in Workers :
        /\ wpc[w] = "recv"
        /\ Len(tag1[w]) = 1
        /\ tag1[w][1].status \in { "request_error", "blocked", "robots_blocked", "parse_error" }
        /\ recv_count[w] >= 2

(***************************************************************************)
(* C9.  When the master reaches shutdown the termination signal was sent   *)
(* to every worker 1..size-1, those that never got a work item included,   *)
(* and every worker eventually receives it and leaves its loop (FairSpec). *)
(***************************************************************************)
SignalSent(w) == wpc[w] = "finished" \/ \E i \in 1..Len(tag0[w]) : tag0[w][i] = None

C9_AllTerminated ==
    /\ [] (pc = "shutdown" => \A w \in Workers : SignalSent(w))
    /\ \A w \in 1..(MaxSize - 1) :
          (pc = "shutdown" /\ w \in Workers) ~> (w \in Workers /\ wpc[w] = "finished")

\* after shutdown every worker has finished, one of them without ever
\* having received a work item
C9_Witness ==
    /\ pc = "shutdown"
    /\ size = 3
    /\ \A w \in Workers : wpc[w] = "finished"
    /\ \E w \in Workers : recv_count[w] = 0

(***************************************************************************)
(* C10.  Whenever the master blocks waiting for a result while the queue   *)
(* is not empty, every worker has an outstanding work item.                *)
(***************************************************************************)
MasterBlocked ==
    /\ pc = "main_loop"
    /\ LoopCondition
    /\ \A w \in Workers : tag1[w] = << >>

C10_NoIdleWorkerWhileQueued ==
    (MasterBlocked /\ work_queue # << >>) => \A w \in Workers : Outstanding(w) >= 1


(***************************************************************************)
(* C11.  In every reachable state of the coordinator, the URL of every     *)
(* work item in work_queue is a member of visited_urls.                    *)
(***************************************************************************)
C11_QueuedAreVisited ==
    \A i \in 1..Len(work_queue) : work_queue[i].url \in visited_urls

\* the queue holds links that a result added, the master being in its loop
C11_Witness ==
    /\ pc = "main_loop"
    /\ Len(work_queue) >= 2
    /\ \A i \in 1..Len(work_queue) : work_queue[i].depth = 1


(***************************************************************************)
(* C12.  The store write of a result, and the admission of its links,      *)
(* happen before the master sends the worker that returned it its next     *)
(* work item or any later message: within an iteration every send comes    *)
(* after insert_crawl_result and after every other step of                 *)
(* _process_result, and while no write fails every URL a worker got before *)
(* its latest work item has its row in crawled_urls.                       *)
(***************************************************************************)
ProcessedBeforeSend ==
    \A j \in 1..Len(effects) :
        effects[j].op = "send" =>
            /\ \E i \in 1..(j - 1) : /\ effects[i].op = "insert_crawl_result"
                                     /\ effects[i].worker = effects[j].worker
            /\ \A i \in 1..Len(effects) : effects[i].op # "send" => i < j

EarlierResultsStored ==
    \A j, k \in 1..Len(sent_log) :
        (j < k /\ sent_log[j].dest = sent_log[k].dest) =>
            RowsOf(crawled_urls, sent_log[j].url) # {}

C12_StoreBeforeNextSend ==
    /\ ProcessedBeforeSend
    /\ ~ store_faulty => EarlierResultsStored

\* an iteration wrote a result, admitted its links, wrote the edges and sent
\* the worker its second work item
C12_Witness ==
    /\ { effects[i].op : i \in 1..Len(effects) } =
          { "insert_crawl_result", "filter_and_add_links", "insert_discovered_links", "send" }
    /\ \E j, k \in 1..Len(sent_log) : j < k /\ sent_log[j].dest = sent_log[k].dest


(***************************************************************************)
(* C13.  If the seed file is missing, empty, or made only of lines that    *)
(* are blank or that normalize_url rejects, the master sends no work item  *)
(* at all, sends the termination signal to every worker, and returns.      *)
(***************************************************************************)
NoValidSeed ==
    \/ ~ urls_file.exists
    \/ \A i \in 1..Len(urls_file.lines) :
          urls_file.lines[i] = BlankLine \/ normalize_url(urls_file.lines[i]) = None

C13_NoSeedsTerminates ==
    (NoValidSeed /\ pc # "bootstrap") =>
        /\ pc = "no_seeds"
        /\ urls_sent = 0
        /\ sent_log = << >>
        /\ \A w \in Workers : Outstanding(w) = 0 /\ recv_count[w] = 0
        /\ \A w \in Workers : SignalSent(w)

\* a file of two rejected lines: the master returned, both workers finished
C13_Witness ==
    /\ urls_file.exists
    /\ Len(urls_file.lines) = 2
    /\ \A i \in 1..2 : urls_file.lines[i] # BlankLine
    /\ NoValidSeed
    /\ pc = "no_seeds"
    /\ size = 3
    /\ \A w \in Workers : wpc[w] = "finished"


(***************************************************************************)
(* C14.  When the seed file is missing or provides no seed, the master     *)
(* process ends with exit code 1; exit code 0 is produced only by a clean  *)
(* completion or by an interrupt.                                          *)
(***************************************************************************)
C14_NoSeedsExitsOne ==
    main_pc[0] = "exited" =>
        /\ pc = "no_seeds" => exit_code[0] = 1
        /\ exit_code[0] = 0 => pc \in { "shutdown", "interrupted" }


(***************************************************************************)
(* C15.  If the store cannot be initialised in the master, no work item    *)
(* is sent, the master exits with code 1, and the run ends: every process  *)
(* has exited, or some process can still take a step by itself (none       *)
(* stays blocked forever in a receive or in the final barrier).            *)
(***************************************************************************)
AllExited == \A rank \in 0..(size - 1) : main_pc[rank] = "exited"

C15_InitFailureEndsRun ==
    pc = "init_failed" =>
        /\ urls_sent = 0 /\ sent_log = << >>
        /\ exit_code[0] = 1
        /\ AllExited \/ ENABLED ProgramStep


(***************************************************************************)
(* C16.  Once the master was interrupted in its main loop, it has sent     *)
(* the termination signal to every worker.                                 *)
(***************************************************************************)
C16_InterruptTerminatesWorkers ==
    (pc = "interrupted" /\ urls_sent > 0) => \A w \in Workers : SignalSent(w)


(***************************************************************************)
(* C17.  Every result crawl_url returns, and so every result that reaches  *)
(* the master and the store, has its status among success, blocked,        *)
(* robots_blocked, request_error and parse_error: the status 'error' the   *)
(* result is initialised with is always replaced.  The result returned is  *)
(* one of those crawl_url(url, depth) stands for in the runs of several    *)
(* workers.                                                                *)
(***************************************************************************)
Returned == cpc = "return"

C17_StatusOfResults ==
    /\ Returned => crawl_result.status \in STATUSES
    /\ Returned => crawl_result \in crawl_url(job.url, job.depth)
    /\ \A i \in 1..Len(tag1[1]) : tag1[1][i].status \in STATUSES
    /\ \A row \in BagToSet(crawled_urls) : row.status \in STATUSES

\* a result whose request failed is on its way to the master, after
\* results of other statuses were stored
C17_Witness ==
    /\ tag1[1] # << >>
    /\ Head(tag1[1]).status = "request_error"
    /\ \E u, v \in BagToSet(crawled_urls) :
          u.status = "success" /\ v.status = "parse_error"


(***************************************************************************)
(* C18.  The links of a result are empty unless its status is success and  *)
(* its depth is below max_depth.                                           *)
(***************************************************************************)
LinksOnlyOnSuccess(r) ==
    r.links # {} => (r.status = "success" /\ r.depth < max_depth)

C18_LinksOnlyOnSuccess ==
    /\ cpc # "idle" => LinksOnlyOnSuccess(crawl_result)
    /\ \A i \in 1..Len(tag1[1]) : LinksOnlyOnSuccess(tag1[1][i])

\* a page crawled at max_depth is returned as a success, after a page above
\* it was returned with links
C18_Witness ==
    /\ Returned
    /\ max_depth = 1
    /\ crawl_result.depth = 1
    /\ crawl_result.status = "success"
    /\ discovered_links # EmptyBag


(***************************************************************************)
(* C19.  For a URL that the configuration does not allow, crawl_url        *)
(* returns status blocked without any network action before: no sleep and  *)
(* no time stamp of the rate limit, no robots.txt fetch, no GET.           *)
(***************************************************************************)
C19_BlockedBeforeNetwork ==
    (Returned /\ ~ is_url_allowed(job.url)) =>
        /\ crawl_result.status = "blocked"
        /\ crawl_result.links = {}
        /\ events = << >>
        /\ urls_processed[1] = 0 =>
              (DOMAIN last_request_time = {} /\ DOMAIN robots_cache = {})

\* the blocked document is returned by a core that crawled a page before
C19_Witness ==
    /\ Returned
    /\ job.url = Url("d.test", <<"/", "f", ".", "p", "d", "f">>)
    /\ urls_processed[1] = 1
    /\ DOMAIN last_request_time # {}


(***************************************************************************)
(* C20.  When robots.txt is respected and the cached parser of the URL's   *)
(* origin disallows the URL, crawl_url returns status robots_blocked with  *)
(* no links and without the GET of the URL; the master then records one    *)
(* row for the result and no edge from it.                                 *)
(***************************************************************************)
RobotsDenies(url) ==
    /\ respect_robots_txt
    /\ Origin(url) \in DOMAIN robots_cache
    /\ robots_cache[Origin(url)].read
    /\ url \in robots_cache[Origin(url)].disallow

C20_RobotsBlocked ==
    /\ (Returned /\ is_url_allowed(job.url) /\ RobotsDenies(job.url)) =>
          /\ crawl_result.status = "robots_blocked"
          /\ crawl_result.links = {}
          /\ \A i \in 1..Len(events) : events[i] # "get"
    /\ results_received = BagCardinality(crawled_urls)
    /\ \A row \in BagToSet(crawled_urls) :
          row.status = "robots_blocked" =>
              \A edge \in BagToSet(discovered_links) : edge.source_url # row.url

\* a page of depth 1 that the parser cached by the crawl of the seed
\* disallows has its row in the store
C20_Witness ==
    /\ \E row \in RowsOf(crawled_urls, Url("c.test", <<"/", "a">>)) :
          row.status = "robots_blocked"
    /\ \E row \in RowsOf(crawled_urls, Url("c.test", <<"/">>)) :
          row.status = "success"


(***************************************************************************)
(* C21.  For the worker and a domain, the start times of two consecutive   *)
(* GET requests to the domain are at least crawl_delay apart, also when    *)
(* robots.txt of the origin is fetched between the rate limit and the      *)
(* first GET.                                                              *)
(***************************************************************************)
C21_RateLimit ==
    \A domain \in DOMAIN get_starts :
        Len(get_starts[domain]) = 2 =>
            get_starts[domain][2] - get_starts[domain][1] >= crawl_delay


(***************************************************************************)
(* C22.  The worker fetches robots.txt of an origin at most once: the      *)
(* entry is made by the first request to the origin, and every later call  *)
(* of _is_robots_allowed for the origin is answered from the cache,        *)
(* whether the first fetch succeeded or failed.                            *)
(***************************************************************************)
C22_RobotsFetchedOnce ==
    /\ DOMAIN robots_fetches = DOMAIN robots_cache
    /\ \A origin \in DOMAIN robots_fetches : robots_fetches[origin] = 1

\* a second page of an origin whose robots.txt could not be read has passed
\* the robots check without a fetch
C22_Witness ==
    /\ cpc = "get"
    /\ urls_processed[1] >= 1
    /\ Origin(job.url) \in DOMAIN robots_cache
    /\ ~ robots_cache[Origin(job.url)].read
    /\ DOMAIN get_starts # {}
    /\ \A i \in 1..Len(events) : events[i] # "robots_fetch"


(***************************************************************************)
(* C23.  When fetching or parsing robots.txt of an origin fails, the entry *)
(* cached for the origin allows everything: _is_robots_allowed returns     *)
(* true for that call and for every later URL of the origin.               *)
(***************************************************************************)
C23_FailedReadAllowsAll ==
    \A origin \in DOMAIN robots_cache :
        robots_cache[origin].failed =>
            /\ \A url \in URLS :
                  Origin(url) = origin => is_robots_allowed(robots_cache[origin], url)
            /\ (Returned /\ Origin(job.url) = origin) =>
                  crawl_result.status # "robots_blocked"


(***************************************************************************)
(* C25.  insert_crawl_result is an upsert keyed by url: after any sequence *)
(* of calls crawled_urls holds at most one row per url, and that row       *)
(* carries the fields of the last result written for the url.              *)
(***************************************************************************)
C25_Upsert ==
    /\ \A row \in BagToSet(crawled_urls) :
          /\ CopiesIn(row, crawled_urls) = 1
          /\ RowsOf(crawled_urls, row.url) = { row }
          /\ row.url \in DOMAIN written
    /\ \A url \in DOMAIN written :
          RowsOf(crawled_urls, url) = { written[url][Len(written[url])] }

\* a url was written twice with different fields, another url once
C25_Witness ==
    /\ \E url \in DOMAIN written :
          Len(written[url]) = 2 /\ written[url][1] # written[url][2]
    /\ BagCardinality(crawled_urls) = 2


(***************************************************************************)
(* C26.  insert_discovered_links is idempotent per pair: inserting a pair  *)
(* (source_url, target_url) that is already in discovered_links, by a      *)
(* later call or a later run on the same store, adds no row, so the table  *)
(* never holds two rows with the same pair.                                *)
(***************************************************************************)
C26_EdgesIdempotent ==
    \A e1, e2 \in BagToSet(discovered_links) :
        (e1.source_url = e2.source_url /\ e1.target_url = e2.target_url) =>
            (e1 = e2 /\ CopiesIn(e1, discovered_links) = 1)


(***************************************************************************)
(* C24.  A store write that fails does not halt or alter the crawl: in the *)
(* iteration whose write of the row or of the edges failed the master      *)
(* still admits the links of the result to the frontier and still sends    *)
(* the next work item, as it would after a write that succeeded, and the   *)
(* run still reaches shutdown.                                             *)
(***************************************************************************)
WriteFailed(worker_rank) ==
    /\ pc = "main_loop"
    /\ tag1[worker_rank] # << >>
    /\ tag1'[worker_rank] = Tail(tag1[worker_rank])
    /\ \/ crawled_urls' = crawled_urls
       \/ discovered_links' = discovered_links /\ visited_urls' # visited_urls

CrawlGoesOn(worker_rank) ==
    \E links \in Orders(Head(tag1[worker_rank]).links) :
        LET f == ProcessLinks(Head(tag1[worker_rank]), links)
        IN  /\ visited_urls' = f.visited
            /\ skip_log' = f.skipped
            /\ results_received' = results_received + 1
            /\ IF f.queue # << >>
               THEN /\ urls_sent' = urls_sent + 1
                    /\ work_queue' = Tail(f.queue)
                    /\ \E w \in Workers : tag0'[w] = Append(tag0[w], Head(f.queue))
               ELSE /\ urls_sent' = urls_sent
                    /\ work_queue' = << >>

C24_WriteFailureIgnored ==
    /\ [][\A w \in 1..(MaxSize - 1) :
             (w \in Workers /\ WriteFailed(w)) => CrawlGoesOn(w)]_vars
    /\ (pc = "main_loop") ~> (pc = "shutdown")

\* the run ended with fewer rows than results and without the edges of the
\* links it admitted and crawled
C24_Witness ==
    /\ pc = "shutdown"
    /\ store_faulty
    /\ results_received = 3
    /\ BagCardinality(crawled_urls) = 1
    /\ discovered_links = EmptyBag
    /\ \E i \in 1..Len(sent_log) : sent_log[i].depth = 1


(***************************************************************************)
(* C27.  Edges are written only for links the frontier accepted: the       *)
(* target of every edge written in a run was added to visited_urls and to  *)
(* the queue by the iteration that processed the result of the edge's      *)
(* source, so a URL is the target of at most one edge, and a link skipped  *)
(* as visited, over the limit or not allowed has no edge.                  *)
(***************************************************************************)
EdgesOfAdmitted ==
    \A edge \in BagToSet(discovered_links) :
        /\ CopiesIn(edge, discovered_links) = 1
        /\ \A other \in BagToSet(discovered_links) :
              other.target_url = edge.target_url => other = edge
        /\ edge.target_url \in visited_urls
        /\ \A i \in 1..Len(seed_urls) : seed_urls[i] # edge.target_url
        /\ \/ \E i \in 1..Len(work_queue) :
                 work_queue[i] = WorkItem(edge.target_url, edge.depth)
           \/ \E i \in 1..Len(sent_log) :
                 sent_log[i].url = edge.target_url /\ sent_log[i].depth = edge.depth
        /\ \E row \in RowsOf(crawled_urls, edge.source_url) :
              row.status = "success" /\ row.depth + 1 = edge.depth

EdgesWrittenOnAdmission ==
    \A edge \in BagToSet(discovered_links') :
        edge \notin BagToSet(discovered_links) =>
            /\ edge.target_url \in visited_urls' \ visited_urls
            /\ \E w \in Workers :
                  /\ tag1[w] # << >>
                  /\ tag1'[w] = Tail(tag1[w])
                  /\ Head(tag1[w]).url = edge.source_url
                  /\ edge.target_url \in Head(tag1[w]).links

C27_EdgesOnlyForAdmitted ==
    /\ [] EdgesOfAdmitted
    /\ [][EdgesWrittenOnAdmission]_vars

\* a page linked to itself and to two pages: two edges were written, the
\* link to the page itself was skipped as visited, and a target was crawled
C27_Witness ==
    /\ BagCardinality(discovered_links) = 2
    /\ "visited" \in skip_log
    /\ results_received >= 2


(***************************************************************************)
(* C28.  normalize_url is idempotent: for every URL on which it succeeds,  *)
(* normalize_url of its result succeeds and returns the same result, paths *)
(* made only of slashes and URLs with a query included.                    *)
(***************************************************************************)
C28_NormalizeIdempotent ==
    renormalized # << >> => renormalized[1] = normalized[1]


(***************************************************************************)
(* C29.  normalize_url removes the port only when it is exactly the        *)
(* default port of the scheme, 80 for http and 443 for https; any other    *)
(* port is kept as it was in the netloc of the result.                     *)
(***************************************************************************)
DefaultPort(scheme) ==
    IF scheme = "http" THEN <<":", "8", "0">> ELSE <<":", "4", "4", "3">>

WithoutDefaultPort(scheme, netloc) ==
    IF EndsWith(netloc, DefaultPort(scheme))
    THEN SubSeq(netloc, 1, Len(netloc) - Len(DefaultPort(scheme)))
    ELSE netloc

C29_OnlyDefaultPortRemoved ==
    (normalized # << >> /\ normalized[1].ok) =>
        urlparse(normalized[1].text).netloc =
            WithoutDefaultPort(urlparse(text).scheme, lower(urlparse(text).netloc))


(***************************************************************************)
(* C30.  is_url_allowed accepts a URL only if its path has no file         *)
(* extension or its extension is one of allowed_extensions; under the      *)
(* default configuration a URL whose extension is neither allowed nor      *)
(* blocked, as .css or .xml, is rejected.                                  *)
(***************************************************************************)
\* the extension of a path: what the last "." of its basename begins
Extension(path) ==
    LET name == Basename(path)
        dots == { i \in 1..Len(name) : name[i] = "." }
    IN  IF dots = {} THEN << >>
        ELSE SubSeq(name, CHOOSE i \in dots : \A j \in dots : j <= i, Len(name))

C30_OnlyAllowedExtensions ==
    (allowed # << >> /\ allowed[1]) =>
        Extension(urlparse(text).path) \in allowed_extensions


(***************************************************************************)
(* C31.  The title of every result is at most 200 characters long,         *)
(* whatever the length of the title of the page.                           *)
(***************************************************************************)
C31_TitleLength ==
    title # << >> => Len(title[1]) <= 200


(***************************************************************************)
(* C32.  An exception raised while the HTML body of a 2xx response is      *)
(* parsed, in the extraction of the title or of the links, does not become *)
(* an error status: the result has status success and no links.            *)
(***************************************************************************)
C32_ParseExceptionIsSuccess ==
    (Returned /\ \E i \in 1..Len(events) : events[i] = "parse_exception") =>
        /\ crawl_result.status = "success"
        /\ crawl_result.links = {}


(***************************************************************************)
(* C33.  The crawl is breadth-first for every number of workers and every  *)
(* interleaving of the replies: a URL is queued, and sent, with the depth  *)
(* that is its shortest link distance from the seeds.                      *)
(***************************************************************************)
C33_BreadthFirst ==
    /\ \A i \in 1..Len(work_queue) : work_queue[i].depth = Distance(work_queue[i].url)
    /\ \A i \in 1..Len(sent_log) : sent_log[i].depth = Distance(sent_log[i].url)


(***************************************************************************)
(* C34.  Work items leave the queue in the order they entered it: the      *)
(* sequence of the work items sent, followed by the queue, is the sequence *)
(* of the work items queued (the seeds in file order, then the links in    *)
(* the order they were admitted), whichever worker each was sent to.       *)
(***************************************************************************)
SentItems == [i \in 1..Len(sent_log) |-> WorkItem(sent_log[i].url, sent_log[i].depth)]

C34_Fifo == SentItems \o work_queue = enqueued

\* work items of both depths were sent to two workers while others wait
C34_Witness ==
    /\ size = 3
    /\ \E i, j \in 1..Len(sent_log) :
          /\ sent_log[i].dest # sent_log[j].dest
          /\ sent_log[i].depth = 0 /\ sent_log[j].depth = 1
    /\ Len(sent_log) >= 3
    /\ work_queue # << >>


(***************************************************************************)
(* C35.  The master never waits for a result that cannot come: whenever    *)
(* the loop condition is evaluated, with at least one worker and at least  *)
(* one seed, a queue that is not empty implies results_received <          *)
(* urls_sent, and some worker has a work item that is not yet answered.    *)
(***************************************************************************)
C35_QueuedImpliesOutstanding ==
    (pc = "main_loop" /\ Workers # {} /\ seed_urls # << >> /\ work_queue # << >>) =>
        /\ results_received < urls_sent
        /\ \E w \in Workers : Outstanding(w) >= 1

\* the loop condition is evaluated after an iteration that sent a work
\* item, with work items still queued
C35_Witness ==
    /\ pc = "main_loop"
    /\ work_queue # << >>
    /\ results_received >= 1
    /\ urls_sent > Cardinality(Workers)


(***************************************************************************)
(* C36.  Whenever the loop condition is evaluated, active_workers is the   *)
(* set of the workers that have a work item not yet answered, and it has   *)
(* urls_sent - results_received members.                                   *)
(***************************************************************************)
C36_ActiveAreOutstanding ==
    pc = "main_loop" =>
        /\ active_workers = { w \in Workers : Outstanding(w) >= 1 }
        /\ Cardinality(active_workers) = urls_sent - results_received

\* one of two workers was removed from active_workers while the other
\* still has a work item
C36_Witness ==
    /\ pc = "main_loop"
    /\ size = 3
    /\ Cardinality(active_workers) = 1
    /\ urls_sent >= 2
    /\ \E w \in Workers \ active_workers : recv_count[w] >= 1


(***************************************************************************)
(* C37.  The termination signal is sent only at shutdown and is final:     *)
(* while the master is in the main loop no termination signal has been     *)
(* sent to any worker, and no step sends a work item to a worker to which  *)
(* the termination signal was sent.                                        *)
(***************************************************************************)
NoSignalInLoop == pc = "main_loop" => \A w \in Workers : ~ SignalSent(w)

NoWorkAfterSignal ==
    \A w \in Workers :
        SignalSent(w) =>
            /\ CountWork(tag0'[w]) <= CountWork(tag0[w])
            /\ \A i \in (Len(sent_log) + 1)..Len(sent_log') : sent_log'[i].dest # w

RowCount(url) ==
    SumOver([row \in BagToSet(crawled_urls) |-> CopiesIn(row, crawled_urls)],
            RowsOf(crawled_urls, url))

C38_OneRowPerSentUrl ==
    (pc = "shutdown" /\ ~ store_faulty) =>
        /\ results_received = urls_sent
        /\ \A url \in SentUrls : RowCount(url) = 1
        /\ \A row \in BagToSet(crawled_urls) : row.url \in SentUrls

\* shutdown after three URLs were crawled, one of them a link found by the
\* crawl, one of them without success
C38_Witness ==
    /\ pc = "shutdown"
    /\ urls_sent >= 3
    /\ BagCardinality(crawled_urls) >= 3
    /\ \E row \in BagToSet(crawled_urls) : row.depth = 1
    /\ \E row \in BagToSet(crawled_urls) : row.status # "success"


(***************************************************************************)
(* C39.  When the master skips a link of a result (the link is already in  *)
(* visited_urls, its domain is at the limit, or is_url_allowed rejects     *)
(* it), the link changes neither visited_urls nor the queue nor            *)
(* domain_counts and no edge is written for it; a link skipped for the     *)
(* limit or by is_url_allowed is not added to visited_urls.                *)
(***************************************************************************)
\* the step is the iteration of the main loop on the result of worker w
IterationOn(w) ==
    /\ results_received' # results_received
    /\ tag1[w] # << >>
    /\ tag1'[w] = Tail(tag1[w])

\* the links of result that _process_result hands to _filter_and_add_links
HandledLinks(result) ==
    IF result.status = "success" /\ result.depth < max_depth THEN result.links ELSE {}

\* the link meets one of the three conditions of lines 247-256
SkippedLink(link) ==
    \/ link \in visited_urls
    \/ OverDomainLimit(link)
    \/ ~ is_url_allowed(link)

\* the work items the step appended to the queue
NewItems == SubSeq(enqueued', Len(enqueued) + 1, Len(enqueued'))

SkipChangesNothing ==
    \A w \in Workers :
        IterationOn(w) =>
            LET result == Head(tag1[w])
            IN  /\ \A link \in HandledLinks(result) :
                      SkippedLink(link) =>
                          /\ link \in visited_urls' <=> link \in visited_urls
                          /\ \A i \in 1..Len(NewItems) : NewItems[i].url # link
                          /\ \A row \in BagToSet(discovered_links') :
                                row.target_url = link =>
                                    CopiesIn(row, discovered_links') =
                                        CopiesIn(row, discovered_links)
                /\ (\A link \in HandledLinks(result) : SkippedLink(link)) =>
                      /\ visited_urls' = visited_urls
                      /\ enqueued' = enqueued
                      /\ discovered_links' = discovered_links
                /\ \A domain \in DOMAIN domain_counts :
                      domain_counts'[domain] =
                          domain_counts[domain] + (IF domain = result.domain THEN 1 ELSE 0)

C39_SkipChangesNothing == [][SkipChangesNothing]_vars

\* a link was skipped because its domain was at the limit, two results
\* were processed, and a URL of that domain is not in visited_urls
C39_Witness ==
    /\ "domain_limit" \in skip_log
    /\ results_received >= 2
    /\ \E link \in URLS : link \notin visited_urls /\ OverDomainLimit(link)

====
